---- MODULE Spec2Model ----
(***************************************************************************)
(* Verification model of the host1x command-submission pipeline of the     *)
(* Tegra drivers: the channel pool (drivers/gpu/host1x/channel.c), the     *)
(* reservation locking of the submission ioctl and the submission ioctl    *)
(* itself (drivers/gpu/drm/tegra/uapi/submit.c), the forced increment of  *)
(* drivers/gpu/drm/tegra/drm.c, and the bridge from syncpoint thresholds   *)
(* to sync points (drivers/gpu/host1x/fence.c).                            *)
(***************************************************************************)
EXTENDS Integers, Sequences, FiniteSets, TLC

(***************************************************************************)
(* Bounds of the model.                                                    *)
(***************************************************************************)
NumChannels == 2
NumChProcs == 3
NumChExtra == 1
NumSubs == 2
NumResvBufs == 2
MaxMappings == 2
NumCallers == 2
NumMappings == 1
MaxBufs == 2
MaxCmds == 2
ConcLimit == 1
MaxIncrs == 2
MaxEvents == 1
GatherWords == 2
NumSyncpts == 2
MaxPoints == 2
MaxReserves == 3
RelocWords == 2
NumVicCtx == 2
MaxVicOpens == 4

VARIABLES
    \* ---- channel pool (struct host1x_channel_list) ----
    sema,        \* chlist->sema: count of the leasing semaphore
    allocated,   \* chlist->allocated_channels: set of slots whose bit is set
    refcount,    \* channels[i].refcount (kref)
    cdma,        \* channels[i].cdma is initialised
    mapped,      \* channels[i].cdma.push_buffer.mapped
    chpc,        \* position of each caller inside the channel functions
    chslot,      \* the channel a caller holds or is working on
    chkind,      \* how the caller got its reference: request / get / index
    chret,       \* what the caller's last call returned
    chhist,      \* what is remembered of the calls: push buffers initialised,
                 \* failed initialisations, requests asleep on a full pool
    \* ---- reservation locking (submit_handle_resv) ----
    resvOwner,   \* per buffer: the submission whose acquire context owns
                 \* bo->gem.resv's lock, 0 when unlocked
    rmaps,       \* per submission: job_data->used_mappings, as buffers
    rpc,         \* per submission: position inside submit_handle_resv
    ri,          \* per submission: the loop index i
    contended,   \* per submission: the local variable contended
    rerr,        \* per submission: the value returned
    stamp,       \* per submission: acquire_ctx.stamp (age of the context)
    wwStamp,     \* the ww_class stamp counter
    acquired,    \* per submission: acquire_ctx.acquired
    rtarget,     \* per submission: the buffer whose lock it sleeps on
    badUnlock,   \* a reservation was unlocked by a submission not holding it
    reLock,      \* a submission tried to lock a reservation it already holds
    \* ---- submission ioctls, syncpoint, engines ----
    sub,         \* per caller: position and locals of its ioctl call
    job,         \* per caller: the host1x_job its call allocated
    acct,        \* per caller: what its call acquired less what it released
    flock,       \* per file: holder of fpriv->lock, 0 when free
    mapref,      \* per mapping: mapping->ref
    pm,          \* per engine: runtime-PM usage count and power state
    sp,          \* the syncpoint: min (reached) and max (reserved)
    sp0,         \* the syncpoint's max before the first call
    resvObj,     \* per mapping: fences of bo->gem.resv
    extSignaled, \* the fence of another driver has signalled
    pushq,       \* the jobs pushed to hardware, in push order
    events,      \* what the environment may still do to a run: failures of
                 \* allocation and the like, signals, forced increments
    engOf,       \* per caller: the engine its channel context is bound to
    \* ---- sync points of syncpoints (fence.c) ----
    fsp,         \* per syncpoint: min and max
    pts,         \* the sync points created, in creation order
    ext,         \* per sync point: the last host1x_sync_pt_extract() of it
    resv,        \* per syncpoint: the threshold last reserved and its history
    freserves,   \* reservations the model still admits
    \* ---- single functions ----
    reloc,       \* submit_write_reloc(): its arguments, the gather data,
                 \* the mapping's reference count, the result
    fwait,       \* host1x_sync_fence_wait(): the fence, the waits pushed,
                 \* the value returned
    vicst        \* vic_open_channel() / vic_close_channel(): the counts

chanVars == <<sema, allocated, refcount, cdma, mapped, chpc, chslot, chkind,
              chret, chhist>>

resvVars == <<resvOwner, rmaps, rpc, ri, contended, rerr, stamp, wwStamp,
              acquired, rtarget, badUnlock, reLock>>

submitVars == <<sub, job, acct, flock, mapref, pm, sp, sp0, resvObj,
                extSignaled, pushq, events, engOf>>

fenceVars == <<fsp, pts, ext, resv, freserves>>

unitVars == <<reloc, fwait, vicst>>

vars == <<chanVars, resvVars, submitVars, fenceVars, unitVars>>

(***************************************************************************)
(* Channel pool: drivers/gpu/host1x/channel.c                              *)
(***************************************************************************)
Slots == 0 .. (NumChannels - 1)
\* the callers: the first NumChProcs use every operation of the pool, the
\* others arrive only where requests wait for a channel
ChProcs == 1 .. (NumChProcs + NumChExtra)
NoSlot == -1
\* Value of a kref that was decremented below zero or incremented from zero
\* (it never releases again).
Saturated == -1

\* find_first_zero_bit(bitmap, max_channels): max_channels when all are set.
FirstZeroBit(bitmap) ==
    IF Slots \ bitmap = {} THEN NumChannels
    ELSE CHOOSE i \in Slots \ bitmap : \A j \in Slots \ bitmap : i <= j

\* kref_init(&channel->refcount)
KrefInit(rc, i) == [rc EXCEPT ![i] = 1]

\* kref_get(): an unconditional increment; an increment from zero (a freed
\* object) saturates the count, and a saturated count stays saturated.
KrefGet(rc, i) ==
    [rc EXCEPT ![i] = IF @ = Saturated \/ @ = 0 THEN Saturated ELSE @ + 1]

\* kref_get_unless_zero(): succeeds on every nonzero count.
KrefGetUnlessZero(rc, i) == rc[i] # 0

\* kref_put(): the count after the decrement, and whether release must run.
KrefPutValue(v) == IF v = Saturated \/ v = 0 THEN Saturated ELSE v - 1
\* a put that releases the channel whatever the count
KrefPutReleasesAlways(v) == TRUE
KrefPutReleases(v) == v = 1

NoChHist ==
    [inits |-> [i \in Slots |-> 0], fails |-> 0,
     full |-> [p \in ChProcs |-> FALSE]]

\* the pool after host1x_channel_list_init(), with the first n callers
\* about to use it
ChStart(n) ==
    /\ sema = NumChannels
    /\ allocated = {}
    /\ refcount = [i \in Slots |-> 0]
    /\ cdma = [i \in Slots |-> FALSE]
    /\ mapped = [i \in Slots |-> FALSE]
    /\ chpc = [p \in ChProcs |-> IF p <= n THEN "idle" ELSE "unused"]
    /\ chslot = [p \in ChProcs |-> NoSlot]
    /\ chkind = [p \in ChProcs |-> "none"]
    /\ chret = [p \in ChProcs |-> "none"]
    /\ chhist = NoChHist

ChInitState == ChStart(NumChProcs)

ChReturn(p, r) ==
    /\ chpc' = [chpc EXCEPT ![p] = "idle"]
    /\ chslot' = [chslot EXCEPT ![p] = NoSlot]
    /\ chkind' = [chkind EXCEPT ![p] = "none"]
    /\ chret' = [chret EXCEPT ![p] = r]

\* acquire_unused_channel(), wait = true: down_interruptible() takes a credit
\* or goes to sleep.
ChDownWait(p) ==
    /\ chpc[p] = "idle"
    /\ IF sema > 0
       THEN /\ sema' = sema - 1
            /\ chpc' = [chpc EXCEPT ![p] = "acquired"]
       ELSE /\ sema' = sema
            /\ chpc' = [chpc EXCEPT ![p] = "blocked"]
    /\ chret' = [chret EXCEPT ![p] = "none"]
    /\ UNCHANGED <<allocated, refcount, cdma, mapped, chslot, chkind>>

\* The sleeper in down_interruptible() is woken by an up().
ChDownWake(p) ==
    /\ chpc[p] = "blocked"
    /\ sema > 0
    /\ sema' = sema - 1
    /\ chpc' = [chpc EXCEPT ![p] = "acquired"]
    /\ UNCHANGED <<allocated, refcount, cdma, mapped, chslot, chkind, chret>>

\* down_interruptible() returns -EINTR: the request returns the error.
ChDownInterrupted(p) ==
    /\ chpc[p] = "blocked"
    /\ ChReturn(p, "EINTR")
    /\ UNCHANGED <<sema, allocated, refcount, cdma, mapped>>

\* acquire_unused_channel(), wait = false: down_trylock() or -EBUSY.
ChDownTry(p) ==
    /\ chpc[p] = "idle"
    /\ IF sema > 0
       THEN /\ sema' = sema - 1
            /\ chpc' = [chpc EXCEPT ![p] = "acquired"]
            /\ chret' = [chret EXCEPT ![p] = "none"]
            /\ UNCHANGED <<chslot, chkind>>
       ELSE /\ sema' = sema
            /\ ChReturn(p, "EBUSY")
    /\ UNCHANGED <<allocated, refcount, cdma, mapped>>

\* The section of acquire_unused_channel() under chlist->lock: find the first
\* zero bit and set it, or warn and return -EBUSY when there is none.
ChFind(p) ==
    /\ chpc[p] = "acquired"
    /\ LET index == FirstZeroBit(allocated) IN
       IF index >= NumChannels
       THEN /\ ChReturn(p, "EBUSY_NOFREE")
            /\ UNCHANGED allocated
       ELSE /\ allocated' = allocated \cup {index}
            /\ chslot' = [chslot EXCEPT ![p] = index]
            /\ chpc' = [chpc EXCEPT ![p] = "found"]
            /\ UNCHANGED <<chkind, chret>>
    /\ UNCHANGED <<sema, refcount, cdma, mapped>>

\* host1x_channel_request(): kref_init() on the slot just acquired.
ChKrefInit(p) ==
    /\ chpc[p] = "found"
    /\ refcount' = KrefInit(refcount, chslot[p])
    /\ chpc' = [chpc EXCEPT ![p] = "init"]
    /\ UNCHANGED <<sema, allocated, cdma, mapped, chslot, chkind, chret>>

\* line 196: the push buffer is initialised when it is not mapped
NeedsPushbufferInit(m) == ~m

\* The bit that the fail label of host1x_channel_request() clears.
FailClearBit(bitmap, i) == bitmap \ {i}
\* The semaphore count after the fail label (no up() there).
FailSema(s) == s

\* The fail label of host1x_channel_request(): the bit is cleared and the
\* error returned.
ChFail(p) ==
    /\ allocated' = FailClearBit(allocated, chslot[p])
    /\ sema' = FailSema(sema)
    /\ ChReturn(p, "EINIT")

\* host1x_channel_request(): host1x_hw_channel_init() and host1x_cdma_init(),
\* either of which may fail, then the test of line 196: a push buffer that
\* is mapped already is kept and the channel returned.
ChInit(p, outcome) ==
    /\ chpc[p] = "init"
    /\ LET i == chslot[p] IN
       IF outcome = "ok"
       THEN /\ cdma' = [cdma EXCEPT ![i] = TRUE]
            /\ IF NeedsPushbufferInit(mapped[i])
               THEN /\ chpc' = [chpc EXCEPT ![p] = "pbinit"]
                    /\ UNCHANGED <<chkind, chret>>
               ELSE /\ chpc' = [chpc EXCEPT ![p] = "holding"]
                    /\ chkind' = [chkind EXCEPT ![p] = "request"]
                    /\ chret' = [chret EXCEPT ![p] = "ok"]
            /\ UNCHANGED <<allocated, sema, chslot>>
       ELSE /\ ChFail(p)
            /\ UNCHANGED cdma
    /\ UNCHANGED <<refcount, mapped>>

\* host1x_channel_request(): host1x_pushbuffer_init() of lines 197-199, after
\* which the push buffer is mapped, or its failure.
ChPushbufferInit(p, outcome) ==
    /\ chpc[p] = "pbinit"
    /\ IF outcome = "ok"
       THEN /\ mapped' = [mapped EXCEPT ![chslot[p]] = TRUE]
            /\ chpc' = [chpc EXCEPT ![p] = "holding"]
            /\ chkind' = [chkind EXCEPT ![p] = "request"]
            /\ chret' = [chret EXCEPT ![p] = "ok"]
            /\ UNCHANGED <<allocated, sema, chslot>>
       ELSE /\ ChFail(p)
            /\ UNCHANGED mapped
    /\ UNCHANGED <<refcount, cdma>>

\* host1x_channel_get(): the holder p takes a further reference, for q.
ChGet(p, q) ==
    /\ chpc[p] = "holding"
    /\ chpc[q] = "idle"
    /\ refcount' = KrefGet(refcount, chslot[p])
    /\ chpc' = [chpc EXCEPT ![q] = "holding"]
    /\ chslot' = [chslot EXCEPT ![q] = chslot[p]]
    /\ chkind' = [chkind EXCEPT ![q] = "get"]
    /\ chret' = [chret EXCEPT ![q] = "ok"]
    /\ UNCHANGED <<sema, allocated, cdma, mapped>>

\* host1x_channel_get_index(host, i)
ChGetIndex(q, i) ==
    /\ chpc[q] = "idle"
    /\ IF KrefGetUnlessZero(refcount, i)
       THEN /\ refcount' = KrefGet(refcount, i)
            /\ chpc' = [chpc EXCEPT ![q] = "holding"]
            /\ chslot' = [chslot EXCEPT ![q] = i]
            /\ chkind' = [chkind EXCEPT ![q] = "index"]
            /\ chret' = [chret EXCEPT ![q] = "ok"]
       ELSE /\ ChReturn(q, "NULL")
            /\ UNCHANGED refcount
    /\ UNCHANGED <<sema, allocated, cdma, mapped>>

\* host1x_channel_put(): kref_put(); the last put goes on to release_channel().
ChPut(p) ==
    /\ chpc[p] = "holding"
    /\ LET i == chslot[p] IN
       /\ refcount' = [refcount EXCEPT ![i] = KrefPutValue(@)]
       /\ IF KrefPutReleases(refcount[i])
          THEN /\ chpc' = [chpc EXCEPT ![p] = "release"]
               /\ chkind' = [chkind EXCEPT ![p] = "none"]
               /\ UNCHANGED <<chslot, chret>>
          ELSE ChReturn(p, "put")
    /\ UNCHANGED <<sema, allocated, cdma, mapped>>

\* release_channel(): stop and deinit the cdma, clear the slot's bit ...
ChReleaseClear(p) ==
    /\ chpc[p] = "release"
    /\ cdma' = [cdma EXCEPT ![chslot[p]] = FALSE]
    /\ allocated' = allocated \ {chslot[p]}
    /\ chpc' = [chpc EXCEPT ![p] = "release_up"]
    /\ UNCHANGED <<sema, refcount, mapped, chslot, chkind, chret>>

\* ... and up() the semaphore.
ChReleaseUp(p) ==
    /\ chpc[p] = "release_up"
    /\ sema' = sema + 1
    /\ ChReturn(p, "released")
    /\ UNCHANGED <<allocated, refcount, cdma, mapped>>

\* host1x_channel_list_free(), when the driver goes away and no caller is
\* inside the pool or holds a channel: the push buffers are destroyed
ChListFree ==
    /\ \A p \in ChProcs : chpc[p] \in {"idle", "unused"}
    /\ \E p \in ChProcs : chpc[p] = "idle"
    /\ mapped' = [i \in Slots |-> FALSE]
    /\ chpc' = [p \in ChProcs |-> "gone"]
    /\ UNCHANGED <<sema, allocated, refcount, cdma, chslot, chkind, chret>>

\* The leases outstanding: callers that got their channel from
\* host1x_channel_request() and have not put it yet.
Leases == {p \in ChProcs : chpc[p] = "holding" /\ chkind[p] = "request"}

\* a request of this step has initialised the push buffer of its slot
PushbufferInitDone(p) == chpc[p] = "pbinit" /\ chpc'[p] = "holding"
\* a request of this step left by the fail label
InitFailed(p) == chpc[p] \in {"init", "pbinit"} /\ chpc'[p] = "idle"

\* What a step of the pool adds to what is remembered: a push buffer
\* initialised (counted up to 2), a failed initialisation (counted up to
\* NumChannels + 1), a request that goes to sleep while NumChannels leases
\* are outstanding, until a lease ends or the request returns an error.
ChHistory ==
    chhist' =
      [inits |-> [i \in Slots |->
                    IF /\ chhist.inits[i] < 2
                       /\ \E p \in ChProcs :
                             /\ PushbufferInitDone(p)
                             /\ chslot[p] = i
                    THEN chhist.inits[i] + 1
                    ELSE chhist.inits[i]],
       fails |-> IF chhist.fails <= NumChannels
                    /\ \E p \in ChProcs : InitFailed(p)
                 THEN chhist.fails + 1
                 ELSE chhist.fails,
       full |-> [w \in ChProcs |->
                   IF chpc[w] = "idle" /\ chpc'[w] = "blocked"
                   THEN Cardinality(Leases) = NumChannels
                   ELSE /\ chhist.full[w]
                        /\ chpc'[w] \notin {"idle", "gone"}
                        /\ Leases \subseteq Leases']]

\* What the channel pool operations leave alone.
ChFrame == ChHistory /\ UNCHANGED <<resvVars, submitVars, fenceVars, unitVars>>

ChNext ==
    \/ \E p \in ChProcs : ChDownWait(p) /\ ChFrame
    \/ \E p \in ChProcs : ChDownWake(p) /\ ChFrame
    \/ \E p \in ChProcs : ChDownInterrupted(p) /\ ChFrame
    \/ \E p \in ChProcs : ChDownTry(p) /\ ChFrame
    \/ \E p \in ChProcs : ChFind(p) /\ ChFrame
    \/ \E p \in ChProcs : ChKrefInit(p) /\ ChFrame
    \/ \E p \in ChProcs : \E o \in {"ok", "hw", "cdma"} : ChInit(p, o) /\ ChFrame
    \/ \E p \in ChProcs : \E o \in {"ok", "pb"} : ChPushbufferInit(p, o) /\ ChFrame
    \/ \E p, q \in ChProcs : ChGet(p, q) /\ ChFrame
    \/ \E q \in ChProcs : \E i \in Slots : ChGetIndex(q, i) /\ ChFrame
    \/ \E p \in ChProcs : ChPut(p) /\ ChFrame
    \/ \E p \in ChProcs : ChReleaseClear(p) /\ ChFrame
    \/ \E p \in ChProcs : ChReleaseUp(p) /\ ChFrame
    \/ ChListFree /\ ChFrame

\* Requests that wait, references by index, puts: the operations of callers
\* none of which asks without waiting or shares its reference. The first
\* NumChannels callers are those that look channels up by index and those
\* whose hardware initialisation may fail; the others only request and put.
ChWaitNext ==
    \/ \E p \in ChProcs : ChDownWait(p) /\ ChFrame
    \/ \E p \in ChProcs : ChDownWake(p) /\ ChFrame
    \/ \E p \in ChProcs : ChDownInterrupted(p) /\ ChFrame
    \/ \E p \in ChProcs : ChFind(p) /\ ChFrame
    \/ \E p \in ChProcs : ChKrefInit(p) /\ ChFrame
    \/ \E p \in ChProcs : ChInit(p, "ok") /\ ChFrame
    \/ \E p \in 1 .. NumChannels : ChInit(p, "hw") /\ ChFrame
    \/ \E p \in ChProcs : ChPushbufferInit(p, "ok") /\ ChFrame
    \/ \E q \in 1 .. NumChannels : \E i \in Slots : ChGetIndex(q, i) /\ ChFrame
    \/ \E p \in ChProcs : ChPut(p) /\ ChFrame
    \/ \E p \in ChProcs : ChReleaseClear(p) /\ ChFrame
    \/ \E p \in ChProcs : ChReleaseUp(p) /\ ChFrame
(***************************************************************************)
(* Reservation locking: submit_handle_resv and submit_unlock_resv of        *)
(* drivers/gpu/drm/tegra/uapi/submit.c, over the ww_mutex of each buffer's  *)
(* reservation object (class reservation_ww_class, a wait-die class).       *)
(***************************************************************************)
Subs == 1 .. NumSubs
ResvBufs == 1 .. NumResvBufs
\* The task dies in the kernel (a wild pointer was dereferenced).
Oops == 0

\* The lists of used mappings a job can have (at least one, as the locking
\* only runs when some buffer has a RESV flag).
RECURSIVE SeqsUpTo(_, _)
SeqsUpTo(S, n) ==
    IF n = 0 THEN {<<>>}
    ELSE LET shorter == SeqsUpTo(S, n - 1) IN
         shorter \cup {Append(q, x) : q \in {r \in shorter : Len(r) = n - 1}, x \in S}
MappingLists == {q \in SeqsUpTo(ResvBufs, MaxMappings) : Len(q) >= 1}

ResvInitState ==
    /\ resvOwner = [b \in ResvBufs |-> 0]
    /\ rmaps \in [Subs -> MappingLists]
    /\ rpc = [s \in Subs |-> "idle"]
    /\ ri = [s \in Subs |-> 0]
    /\ contended = [s \in Subs |-> -1]
    /\ rerr = [s \in Subs |-> "none"]
    /\ stamp = [s \in Subs |-> 0]
    /\ wwStamp = 1
    /\ acquired = [s \in Subs |-> 0]
    /\ rtarget = [s \in Subs |-> 0]
    /\ badUnlock = FALSE
    /\ reLock = FALSE

\* The other components at rest, for the specifications that do not use the
\* reservation locks.
ResvIdleState ==
    /\ resvOwner = [b \in ResvBufs |-> 0]
    /\ rmaps = [s \in Subs |-> <<1>>]
    /\ rpc = [s \in Subs |-> "unused"]
    /\ ri = [s \in Subs |-> 0]
    /\ contended = [s \in Subs |-> -1]
    /\ rerr = [s \in Subs |-> "none"]
    /\ stamp = [s \in Subs |-> 0]
    /\ wwStamp = 1
    /\ acquired = [s \in Subs |-> 0]
    /\ rtarget = [s \in Subs |-> 0]
    /\ badUnlock = FALSE
    /\ reLock = FALSE

\* dma_resv_lock_interruptible(resv, ctx) -> ww_mutex_lock_interruptible():
\* -EALREADY when the context already holds the lock; the lock when it is
\* free; -EDEADLK (wait-die) when the context holds other locks and is younger
\* than the holder's context; otherwise the caller sleeps.
WwLockResult(s, b) ==
    IF resvOwner[b] = s THEN "EALREADY"
    ELSE IF resvOwner[b] = 0 THEN "OK"
    ELSE IF acquired[s] > 0 /\ stamp[s] > stamp[resvOwner[b]] THEN "EDEADLK"
    ELSE "BLOCK"

\* dma_resv_lock_slow_interruptible(resv, ctx): as above but never -EDEADLK.
WwLockSlowResult(s, b) ==
    IF resvOwner[b] = s THEN "EALREADY"
    ELSE IF resvOwner[b] = 0 THEN "OK"
    ELSE "BLOCK"

\* dma_resv_unlock() of each buffer of the sequence bs in turn, by submission
\* s: the lock becomes free whoever held it, and the holder's context counts
\* one lock less. Yields the owners, the acquired counts and whether some
\* unlock hit a lock that s did not hold.
RECURSIVE WwUnlockSeq(_, _, _, _, _)
WwUnlockSeq(s, bs, own, acq, bad) ==
    IF bs = <<>> THEN [own |-> own, acq |-> acq, bad |-> bad]
    ELSE LET b == Head(bs)
             h == own[b]
         IN WwUnlockSeq(s, Tail(bs),
                        [own EXCEPT ![b] = 0],
                        IF h # 0 /\ acq[h] > 0 THEN [acq EXCEPT ![h] = @ - 1] ELSE acq,
                        bad \/ h # s)

\* submit_handle_resv, line 263: the index of the mapping whose reservation
\* the loop locks at iteration i.
LoopLockIndex(i, c) == c

\* The buffers mappings[k].mapping->bo can be: the mapping's buffer when k is
\* inside the array; for a read outside the array whatever the memory holds:
\* a pointer to any buffer, or a wild pointer.
MappingBo(maps, k) ==
    IF k >= 0 /\ k < Len(maps) THEN {maps[k + 1]} ELSE ResvBufs \cup {Oops}

\* ww_acquire_init(acquire_ctx, &reservation_ww_class), then the retry label
\* with contended = -1 falls through to the loop.
RStart(s) ==
    /\ rpc[s] = "idle"
    /\ stamp' = [stamp EXCEPT ![s] = wwStamp]
    /\ wwStamp' = wwStamp + 1
    /\ rpc' = [rpc EXCEPT ![s] = "loop"]
    /\ UNCHANGED <<resvOwner, rmaps, ri, contended, rerr, acquired, rtarget,
                   badUnlock, reLock>>

\* The error branch of the loop at index i with error e (lines 269-289):
\* unlock mappings[0..i-1], unlock mappings[contended] when contended >= i,
\* then retry on -EDEADLK or return the error.
RLoopError(s, e) ==
    LET i == ri[s]
        c == contended[s]
        toUnlock == SubSeq(rmaps[s], 1, i) \o
                    (IF c # -1 /\ c >= i THEN <<rmaps[s][c + 1]>> ELSE <<>>)
        u == WwUnlockSeq(s, toUnlock, resvOwner, acquired, badUnlock)
    IN /\ resvOwner' = u.own
       /\ acquired' = u.acq
       /\ badUnlock' = u.bad
       /\ rtarget' = [rtarget EXCEPT ![s] = 0]
       /\ IF e = "EDEADLK"
          THEN /\ contended' = [contended EXCEPT ![s] = i]
               /\ rpc' = [rpc EXCEPT ![s] = "slow"]
               /\ UNCHANGED rerr
          ELSE /\ rpc' = [rpc EXCEPT ![s] = "failed"]
               /\ rerr' = [rerr EXCEPT ![s] = e]
               /\ UNCHANGED contended
       /\ UNCHANGED <<ri>>

\* The lock was obtained at index i: next iteration.
RLockTaken(s, b) ==
    /\ resvOwner' = [resvOwner EXCEPT ![b] = s]
    /\ acquired' = [acquired EXCEPT ![s] = @ + 1]
    /\ ri' = [ri EXCEPT ![s] = @ + 1]
    /\ rpc' = [rpc EXCEPT ![s] = "loop"]
    /\ rtarget' = [rtarget EXCEPT ![s] = 0]
    /\ UNCHANGED <<contended, rerr, badUnlock>>

\* One iteration of the loop of lines 262-290, or its exit (ww_acquire_done).
RLoop(s) ==
    /\ rpc[s] = "loop"
    /\ UNCHANGED <<rmaps, stamp, wwStamp>>
    /\ IF ri[s] >= Len(rmaps[s])
       THEN /\ rpc' = [rpc EXCEPT ![s] = "fences"]
            /\ UNCHANGED <<resvOwner, ri, contended, rerr, acquired, rtarget,
                           badUnlock, reLock>>
       ELSE \E b \in MappingBo(rmaps[s], LoopLockIndex(ri[s], contended[s])) :
              IF b = Oops
              THEN /\ rpc' = [rpc EXCEPT ![s] = "oops"]
                   /\ UNCHANGED <<resvOwner, ri, contended, rerr, acquired,
                                  rtarget, badUnlock, reLock>>
              ELSE IF ri[s] = contended[s]
              THEN /\ ri' = [ri EXCEPT ![s] = @ + 1]
                   /\ UNCHANGED <<resvOwner, rpc, contended, rerr, acquired,
                                  rtarget, badUnlock, reLock>>
              ELSE LET r == WwLockResult(s, b) IN
                   /\ reLock' = (reLock \/ r = "EALREADY")
                   /\ IF r = "OK" THEN RLockTaken(s, b)
                      ELSE IF r = "BLOCK"
                      THEN /\ rpc' = [rpc EXCEPT ![s] = "wait"]
                           /\ rtarget' = [rtarget EXCEPT ![s] = b]
                           /\ UNCHANGED <<resvOwner, ri, contended, rerr,
                                          acquired, badUnlock>>
                      ELSE RLoopError(s, r)

\* The sleeper in dma_resv_lock_interruptible() gets the lock once it is free,
\* or is killed (-EDEADLK) when an older context holds it by then.
RWaitWake(s) ==
    /\ rpc[s] = "wait"
    /\ LET r == WwLockResult(s, rtarget[s]) IN
       /\ r \in {"OK", "EDEADLK"}
       /\ IF r = "OK" THEN RLockTaken(s, rtarget[s]) ELSE RLoopError(s, r)
    /\ UNCHANGED <<rmaps, stamp, wwStamp, reLock>>

\* A signal ends the sleep in dma_resv_lock_interruptible() with -EINTR.
RWaitInterrupted(s) ==
    /\ rpc[s] = "wait"
    /\ RLoopError(s, "EINTR")
    /\ UNCHANGED <<rmaps, stamp, wwStamp, reLock>>

\* The retry label with contended # -1 (lines 252-260):
\* dma_resv_lock_slow_interruptible() on the contended mapping.
RSlow(s) ==
    /\ rpc[s] = "slow"
    /\ LET b == rmaps[s][contended[s] + 1]
           r == WwLockSlowResult(s, b)
       IN /\ reLock' = (reLock \/ r = "EALREADY")
          /\ IF r = "OK"
             THEN /\ resvOwner' = [resvOwner EXCEPT ![b] = s]
                  /\ acquired' = [acquired EXCEPT ![s] = @ + 1]
                  /\ ri' = [ri EXCEPT ![s] = 0]
                  /\ rpc' = [rpc EXCEPT ![s] = "loop"]
                  /\ UNCHANGED <<rerr, rtarget>>
             ELSE IF r = "BLOCK"
             THEN /\ rpc' = [rpc EXCEPT ![s] = "slowwait"]
                  /\ rtarget' = [rtarget EXCEPT ![s] = b]
                  /\ UNCHANGED <<resvOwner, acquired, ri, rerr>>
             ELSE /\ rpc' = [rpc EXCEPT ![s] = "failed"]
                  /\ rerr' = [rerr EXCEPT ![s] = r]
                  /\ UNCHANGED <<resvOwner, acquired, ri, rtarget>>
    /\ UNCHANGED <<rmaps, contended, stamp, wwStamp, badUnlock>>

\* The sleeper in dma_resv_lock_slow_interruptible() gets the lock.
RSlowWake(s) ==
    /\ rpc[s] = "slowwait"
    /\ resvOwner[rtarget[s]] = 0
    /\ resvOwner' = [resvOwner EXCEPT ![rtarget[s]] = s]
    /\ acquired' = [acquired EXCEPT ![s] = @ + 1]
    /\ ri' = [ri EXCEPT ![s] = 0]
    /\ rpc' = [rpc EXCEPT ![s] = "loop"]
    /\ rtarget' = [rtarget EXCEPT ![s] = 0]
    /\ UNCHANGED <<rmaps, contended, rerr, stamp, wwStamp, badUnlock, reLock>>

\* Whether a signal can end the sleep in the slow path
\* (dma_resv_lock_slow_interruptible, line 255).
SlowLockInterruptible == TRUE

\* A signal ends the sleep in the slow path: ww_acquire_done, return the error.
RSlowInterrupted(s) ==
    /\ rpc[s] = "slowwait"
    /\ SlowLockInterruptible
    /\ rpc' = [rpc EXCEPT ![s] = "failed"]
    /\ rerr' = [rerr EXCEPT ![s] = "EINTR"]
    /\ rtarget' = [rtarget EXCEPT ![s] = 0]
    /\ UNCHANGED <<resvOwner, rmaps, ri, contended, stamp, wwStamp, acquired,
                   badUnlock, reLock>>

\* submit_unlock_resv(): dma_resv_unlock() of every used mapping's buffer.
RUnlockAll(s) ==
    LET u == WwUnlockSeq(s, rmaps[s], resvOwner, acquired, badUnlock) IN
    /\ resvOwner' = u.own
    /\ acquired' = u.acq
    /\ badUnlock' = u.bad

\* Lines 294-319: with all locks taken, reserve the fence slots and collect
\* the implicit fences of each mapping; an allocation may fail, which unlocks
\* everything and returns the error.
RFences(s, ok) ==
    /\ rpc[s] = "fences"
    /\ IF ok
       THEN /\ rpc' = [rpc EXCEPT ![s] = "done"]
            /\ rerr' = [rerr EXCEPT ![s] = "0"]
            /\ UNCHANGED <<resvOwner, acquired, badUnlock>>
       ELSE /\ RUnlockAll(s)
            /\ rpc' = [rpc EXCEPT ![s] = "failed"]
            /\ rerr' = [rerr EXCEPT ![s] = "ENOMEM"]
    /\ UNCHANGED <<rmaps, ri, contended, stamp, wwStamp, rtarget, reLock>>

\* The caller of a successful submit_handle_resv unlocks the reservations
\* (tegra_drm_ioctl_channel_submit, lines 717 and 734).
RCallerUnlock(s) ==
    /\ rpc[s] = "done"
    /\ RUnlockAll(s)
    /\ rpc' = [rpc EXCEPT ![s] = "released"]
    /\ UNCHANGED <<rmaps, ri, contended, rerr, stamp, wwStamp, rtarget, reLock>>

\* What the reservation locking leaves alone.
ResvFrame == UNCHANGED <<chanVars, submitVars, fenceVars, unitVars>>

\* The steps of a submission that need no signal.
ResvProgress ==
    \/ \E s \in Subs : RStart(s) /\ ResvFrame
    \/ \E s \in Subs : RLoop(s) /\ ResvFrame
    \/ \E s \in Subs : RWaitWake(s) /\ ResvFrame
    \/ \E s \in Subs : RSlow(s) /\ ResvFrame
    \/ \E s \in Subs : RSlowWake(s) /\ ResvFrame
    \/ \E s \in Subs : \E ok \in BOOLEAN : RFences(s, ok) /\ ResvFrame
    \/ \E s \in Subs : RCallerUnlock(s) /\ ResvFrame

ResvNext ==
    \/ ResvProgress
    \/ \E s \in Subs : RWaitInterrupted(s) /\ ResvFrame
    \/ \E s \in Subs : RSlowInterrupted(s) /\ ResvFrame

(***************************************************************************)
(* Syncpoints: 32-bit counters (u32 min, max).  A value is kept as two     *)
(* 16-bit limbs <<high, low>> so that the arithmetic wraps at 2^32.        *)
(***************************************************************************)
Limb == 65536

\* u32 + n for a small natural n, modulo 2^32
U32Add(a, n) ==
    LET lo == a[2] + n
    IN  <<(a[1] + (lo \div Limb)) % Limb, lo % Limb>>

\* u32 - u32, modulo 2^32
U32Sub(a, b) ==
    LET lo == a[2] - b[2] + Limb
        hi == a[1] - b[1] + Limb - (IF lo < Limb THEN 1 ELSE 0)
    IN  <<hi % Limb, lo % Limb>>

\* (s32)d >= 0
S32NonNegative(d) == d[1] < Limb \div 2

\* the value the syncpoint holds when the first submission arrives: two
\* increments before the wrap
SyncptStarts == {<<Limb - 1, Limb - 2>>}

\* host1x_syncpt_incr_max(sp, incrs): reserve incrs increments; the value
\* returned is the new max
SyncptIncrMax(s, incrs) == [s EXCEPT !.max = U32Add(@, incrs)]

\* host1x_syncpt_is_expired(sp, thresh): signed distance of min to thresh
SyncptIsExpired(s, thresh) == S32NonNegative(U32Sub(s.min, thresh))

\* host1x_syncpt_idle(sp)
SyncptIdle(s) == s.min = s.max

\* host1x_syncpt_incr(sp): an increment from the CPU; refused when no
\* increment is outstanding
SyncptCpuIncr(s) == IF SyncptIdle(s) THEN s ELSE [s EXCEPT !.min = U32Add(@, 1)]

\* an increment done by the engine executing a job
SyncptHwIncr(s) == [s EXCEPT !.min = U32Add(@, 1)]

\* wrap-aware a <= b
U32Leq(a, b) == S32NonNegative(U32Sub(b, a))

(***************************************************************************)
(* The submission ioctls: drivers/gpu/drm/tegra/uapi/submit.c and          *)
(* tegra_drm_submit() of drivers/gpu/drm/tegra/drm.c.                      *)
(***************************************************************************)
Callers == 1 .. NumCallers
MapIds == 1 .. NumMappings
\* a mapping id that xa_load() does not find
UnknownId == 0
\* the engines (clients) a channel context can be bound to; each has its own
\* device for runtime PM and its own channel
Engines == {"vic", "gr2d"}

NoU32 == <<0 - 1, 0 - 1>>
NoFence == [kind |-> "none", thr |-> NoU32]
ExtFence == [kind |-> "ext", thr |-> NoU32]
\* host1x_fence_create(sp, threshold)
SyncptFence(thr) == [kind |-> "syncpt", thr |-> thr]

\* dma_fence_is_signaled()
Signaled(f) ==
    CASE f.kind = "syncpt" -> SyncptIsExpired(sp, f.thr)
      [] f.kind = "ext" -> extSignaled
      [] OTHER -> TRUE

\* the labels at the end of tegra_drm_ioctl_channel_submit, in order
Labels == <<"unlock_resv", "put_pm_runtime", "put_job", "free_job_data",
            "put_bo", "unlock">>
LabelIndex(l) == CHOOSE i \in DOMAIN Labels : Labels[i] = l
\* a goto to label from runs the code under label l
Runs(l, from) == LabelIndex(from) <= LabelIndex(l)

ZeroCount == [m \in MapIds |-> 0]

SubIdle ==
    [pc |-> "idle", path |-> "none", err |-> "0", label |-> "unlock",
     phase |-> "none", jd |-> "none", used |-> <<>>, need |-> FALSE,
     ncmds |-> 0, goff |-> 0, gwords |-> 0, implicit |-> {},
     fenceValue |-> NoU32, syncFile |-> FALSE]

\* a call has returned: of its locals only the results stay
SubReturned(s) ==
    [SubIdle EXCEPT !.pc = "returned", !.path = s.path, !.err = s.err,
                    !.phase = s.phase, !.fenceValue = s.fenceValue,
                    !.syncFile = s.syncFile]

JobNone ==
    [ref |-> 0, rel |-> FALSE, user |-> <<>>, pinned |-> FALSE, waits |-> {},
     k |-> 0, end |-> NoU32, prog |-> "none", incrs |-> 0, retired |-> FALSE,
     serialize |-> FALSE, unblock |-> FALSE, deps |-> {}, early |-> FALSE,
     gathers |-> <<>>]

AcctNone ==
    [mapNet |-> ZeroCount, pmNet |-> 0, jdFrees |-> 0, boNet |-> 0,
     reserved |-> 0, unknownAt |-> 0, gets |-> 0, faulted |-> FALSE,
     defect |-> FALSE, slots |-> {}, shared |-> {}, releases |-> 0,
     dataWords |-> 0, anyWords |-> FALSE, badArgs |-> FALSE, unlocks |-> 0]

\* the state before the calls of the callers in arriving; the other
\* callers never arrive
SubmitStart(arriving) ==
    /\ sub = [p \in Callers |->
                IF p \in arriving THEN SubIdle
                ELSE [SubIdle EXCEPT !.pc = "unused"]]
    /\ job = [p \in Callers |-> JobNone]
    /\ acct = [p \in Callers |-> AcctNone]
    /\ flock = [p \in Callers |-> 0]
    /\ mapref = [m \in MapIds |-> 1]
    /\ pm = [e \in Engines |-> [usage |-> 0, active |-> FALSE]]
    /\ sp \in {[min |-> v, max |-> v] : v \in SyncptStarts}
    /\ sp0 = sp.max
    /\ resvObj = [m \in MapIds |-> [excl |-> ExtFence, shared |-> {}]]
    /\ extSignaled = FALSE
    /\ pushq = <<>>
    /\ events = MaxEvents
    /\ engOf \in {f \in [Callers -> Engines] :
                    \A p \in Callers : p = 1 \/ p \notin arriving => f[p] = "vic"}

\* the submission part at rest, for the specifications of the other parts
SubmitIdleState ==
    /\ sub = [p \in Callers |-> [SubIdle EXCEPT !.pc = "unused"]]
    /\ job = [p \in Callers |-> JobNone]
    /\ acct = [p \in Callers |-> AcctNone]
    /\ flock = [p \in Callers |-> 0]
    /\ mapref = [m \in MapIds |-> 1]
    /\ pm = [e \in Engines |-> [usage |-> 0, active |-> FALSE]]
    /\ sp = [min |-> <<0, 0>>, max |-> <<0, 0>>]
    /\ sp0 = sp.max
    /\ resvObj = [m \in MapIds |-> [excl |-> NoFence, shared |-> {}]]
    /\ extSignaled = FALSE
    /\ pushq = <<>>
    /\ events = 0
    /\ engOf = [p \in Callers |-> "vic"]

\* ---- the pieces of state the reference-counting helpers work on ----
World == [mapref |-> mapref, pm |-> pm, job |-> job, acct |-> acct]

\* tegra_drm_mapping_put(mapping), on behalf of call p
MappingPut(w, p, m) ==
    [w EXCEPT !.mapref[m] = KrefPutValue(@),
              !.acct[p].mapNet[m] = @ - 1]

\* tegra_drm_mapping_get(): kref_get(&mapping->ref)
MappingGet(w, p, m) ==
    [w EXCEPT !.mapref = KrefGet(@, m),
              !.acct[p].mapNet[m] = @ + 1]

RECURSIVE MappingPutAll(_, _, _)
MappingPutAll(w, p, used) ==
    IF used = <<>> THEN w
    ELSE MappingPutAll(MappingPut(w, p, Head(used).m), p, Tail(used))

RECURSIVE MappingGetAll(_, _, _)
MappingGetAll(w, p, used) ==
    IF used = <<>> THEN w
    ELSE MappingGetAll(MappingGet(w, p, Head(used).m), p, Tail(used))

\* pm_runtime_put() / pm_runtime_put_autosuspend() on the engine of call p
PmPut(w, p) ==
    [w EXCEPT !.pm[engOf[p]].usage = @ - 1,
              !.acct[p].pmNet = @ - 1]

\* a release callback that leaves the runtime-PM reference alone
ReleaseJobNoPm(w, j) ==
    LET w1 == MappingPutAll(w, j, w.job[j].user)
    IN  [w1 EXCEPT !.acct[j].jdFrees = @ + 1, !.job[j].user = <<>>,
                   !.acct[j].releases = @ + 1]

\* release_job(): the job's release callback
ReleaseJob(w, j) ==
    LET w1 == MappingPutAll(w, j, w.job[j].user)
        w2 == [w1 EXCEPT !.acct[j].jdFrees = @ + 1, !.job[j].user = <<>>,
                         !.acct[j].releases = @ + 1]
    IN  PmPut(w2, j)

\* host1x_job_put(): the last reference frees the job, calling job->release
JobPut(w, j) ==
    LET r == KrefPutValue(w.job[j].ref)
        w1 == [w EXCEPT !.job[j].ref = r]
    IN  IF KrefPutReleases(w.job[j].ref)
        THEN LET w2 == IF w.job[j].rel THEN ReleaseJob(w1, j) ELSE w1
             IN  [w2 EXCEPT !.job[j].pinned = FALSE]
        ELSE w1

SetWorld(w) ==
    /\ mapref' = w.mapref
    /\ pm' = w.pm
    /\ job' = w.job
    /\ acct' = w.acct

Fail(s, e, label, phase) ==
    [s EXCEPT !.pc = "unwind", !.err = e, !.label = label, !.phase = phase]

\* a step that can fail for want of memory or the like does so only while
\* the environment's budget lasts
Inject(ok) ==
    /\ ok \/ events > 0
    /\ events' = IF ok THEN events ELSE events - 1

\* ---- frames ----
SubmitFrame == UNCHANGED <<chanVars, resvVars, fenceVars, unitVars>>
EnvFrame == UNCHANGED <<sp0, engOf>>

(***************************************************************************)
(* tegra_drm_ioctl_channel_submit().  The call of caller p works on a      *)
(* frame: its locals s, the reference counts w, the syncpoint sp; hit says *)
(* that the injected failure took place.  The code between two points at   *)
(* which the call touches what other callers or the engines read is one    *)
(* action, composed of one operator per phase.                             *)
(***************************************************************************)
Frame(p) == [s |-> sub[p], w |-> World, sp |-> sp, hit |-> FALSE]

At(c, pc) == c.s.pc = pc

FailF(c, e, label, phase) == [c EXCEPT !.s = Fail(@, e, label, phase)]

\* an injected failure
FaultF(c, e, label, phase) ==
    [c EXCEPT !.s = Fail(@, e, label, phase), !.hit = TRUE]

\* A call made alone is explored with every argument, malformed ones too,
\* and with the longer arrays; calls that race are well-formed and short.
Solo == \E p \in Callers : sub[p].pc = "unused"
Inputs(all, wellFormed) == IF Solo THEN all ELSE wellFormed
BufLimit == IF Solo THEN MaxBufs ELSE ConcLimit
CmdLimit == IF Solo THEN MaxCmds ELSE ConcLimit

\* what userspace can put into one struct drm_tegra_submit_buf
BufDescs ==
    {[id |-> m, read |-> r, write |-> w, defect |-> "none"] :
        m \in MapIds, r \in BOOLEAN, w \in BOOLEAN}
    \cup {[id |-> UnknownId, read |-> FALSE, write |-> FALSE, defect |-> "none"]}
    \cup {[id |-> m, read |-> FALSE, write |-> TRUE, defect |-> d] :
        m \in MapIds, d \in {"flags", "reserved", "reloc"}}

BufLists ==
    LET descs == Inputs(BufDescs,
                        {d \in BufDescs : d.defect = "none" /\ d.id \in MapIds})
    IN  UNION {[1 .. n -> descs] : n \in 0 .. BufLimit}

\* what userspace can put into args->syncpt_incrs[]
IncrArgs ==
    {[k |-> k, defect |-> d] :
        k \in 1 .. MaxIncrs,
        d \in {"none", "second", "flags", "reserved", "fd"}}

\* the failures of allocation and copying in the first part of the call
PrepareFaults ==
    {"none", "gather_nomem", "gather_copy", "jobdata", "bufs_copy",
     "bufs_nomem", "cmds_copy", "job_nomem"}

\* the arguments of one call, with the failure it is to meet
SubmitArgs ==
    [reserved : Inputs(BOOLEAN, {FALSE}),
     ctxOk : Inputs(BOOLEAN, {TRUE}),
     words : Inputs({0, GatherWords}, {GatherWords}),
     bufs : BufLists,
     incr : Inputs(IncrArgs, {a \in IncrArgs : a.defect = "none"}),
     ncmds : Inputs(0 .. CmdLimit, 1 .. CmdLimit),
     fault : PrepareFaults]

\* lines 642-647: the reserved fields, then tegra_drm_channel_ctx_lock()
CheckArgs(c, a) ==
    IF ~At(c, "idle") THEN c
    ELSE IF a.reserved \/ ~a.ctxOk
    THEN [c EXCEPT !.s = [@ EXCEPT !.pc = "returned", !.path = "new",
                                   !.err = "EINVAL", !.phase = "args"]]
    ELSE [c EXCEPT !.s = [@ EXCEPT !.pc = "gather", !.path = "new"]]

\* submit_copy_gather_data()
CopyGatherData(c, p, a) ==
    IF ~At(c, "gather") THEN c
    ELSE IF a.words = 0 THEN FailF(c, "EINVAL", "unlock", "gather")
    ELSE IF a.fault = "gather_nomem"
    THEN FaultF(c, "ENOMEM", "unlock", "gather")
    ELSE IF a.fault = "gather_copy"
    THEN FaultF(c, "EFAULT", "unlock", "gather")
    ELSE [c EXCEPT !.s = [@ EXCEPT !.pc = "jobdata", !.gwords = a.words],
                   !.w.acct[p].boNet = @ + 1]

\* lines 654-658: job_data = kzalloc()
AllocJobData(c, a) ==
    IF ~At(c, "jobdata") THEN c
    ELSE IF a.fault = "jobdata" THEN FaultF(c, "ENOMEM", "put_bo", "jobdata")
    ELSE [c EXCEPT !.s = [@ EXCEPT !.pc = "bufs", !.jd = "alloc"]]

UsedMapping(b) == [m |-> b.id, read |-> b.read, write |-> b.write]

\* a drop_refs loop that puts nothing
DropNoRefs(mappings, i) == <<>>

\* a drop_refs loop that stops before mappings[0]
DropRefsButFirst(mappings, i) == SubSeq(mappings, 2, i)

\* the drop_refs loop: puts mappings[i-1] .. mappings[0]
DropRefs(mappings, i) == SubSeq(mappings, 1, i)

\* the loop of submit_process_bufs over bufs[i ..], with mappings[] filled
\* so far: the error, the references taken and the references put
RECURSIVE BufLoop(_, _, _)
BufLoop(bufs, i, mappings) ==
    IF i > Len(bufs)
    THEN [err |-> "0", used |-> mappings, got |-> mappings, put |-> <<>>]
    ELSE LET b == bufs[i]
         IN  IF b.defect \in {"flags", "reserved"} \/ b.id \notin MapIds
             THEN [err |-> "EINVAL", used |-> <<>>, got |-> mappings,
                   put |-> DropRefs(mappings, i - 1)]
             ELSE IF b.defect = "reloc"
             THEN [err |-> "EINVAL", used |-> <<>>,
                   got |-> Append(mappings, UsedMapping(b)),
                   put |-> <<UsedMapping(b)>> \o DropRefs(mappings, i - 1)]
             ELSE BufLoop(bufs, i + 1, Append(mappings, UsedMapping(b)))

\* *need_implicit_fences
NeedImplicitFences(used) ==
    \E i \in DOMAIN used : used[i].read \/ used[i].write

\* submit_process_bufs()
ProcessBufs(c, p, a) ==
    IF ~At(c, "bufs") THEN c
    ELSE IF a.fault = "bufs_copy"
    THEN FaultF(c, "EFAULT", "free_job_data", "lookup")
    ELSE IF a.fault = "bufs_nomem"
    THEN FaultF(c, "ENOMEM", "free_job_data", "lookup")
    ELSE LET r == BufLoop(a.bufs, 1, <<>>)
             w == [MappingPutAll(MappingGetAll(c.w, p, r.got), p, r.put)
                     EXCEPT !.acct[p].gets = Len(r.got)]
         IN  IF r.err = "0"
             THEN [c EXCEPT !.w = w,
                      !.s = [@ EXCEPT !.pc = "newjob", !.jd = "filled",
                                      !.used = r.used,
                                      !.need = NeedImplicitFences(r.used)]]
             ELSE FailF([c EXCEPT !.w = w], r.err, "free_job_data", "lookup")

\* a reservation of two increments where one is used
ReserveTwo(need) == IF need THEN 2 ELSE 0

\* the increments submit_create_job reserves for the unblocking increment
ImplicitReserve(need) == IF need THEN 1 ELSE 0

\* line 474: the threshold of the wait the CPU increment satisfies
UnblockThreshold(s) == U32Sub(s.max, <<0, 1>>)

\* submit_create_job() up to the loop over the commands; a job that
\* submit_get_syncpt() refuses is put at once
CreateJobHead(c, p, a) ==
    IF ~At(c, "newjob") THEN c
    ELSE IF a.fault = "cmds_copy"
    THEN FaultF(c, "EFAULT", "free_job_data", "alloc")
    ELSE IF a.fault = "job_nomem"
    THEN FaultF(c, "ENOMEM", "free_job_data", "alloc")
    ELSE IF a.incr.defect # "none"
    THEN FailF(c, "EINVAL", "free_job_data", "alloc")
    ELSE LET s1 == SyncptIncrMax(c.sp, ImplicitReserve(c.s.need))
         IN  [c EXCEPT
                !.sp = s1,
                !.w.job[p] = [JobNone EXCEPT !.ref = 1, !.k = a.incr.k,
                                 !.serialize = TRUE, !.prog = "alloc",
                                 !.unblock = c.s.need,
                                 !.waits = IF c.s.need
                                           THEN {UnblockThreshold(s1)}
                                           ELSE {}],
                !.w.acct[p].reserved = @ + ImplicitReserve(c.s.need),
                !.s = [@ EXCEPT !.pc = "cmds", !.ncmds = a.ncmds]]

\* the frame becomes the state
SetFrame(p, c) ==
    /\ sub' = [sub EXCEPT ![p] = c.s]
    /\ SetWorld(c.w)
    /\ sp' = c.sp
    /\ c.hit => events > 0
    /\ events' = IF c.hit THEN events - 1 ELSE events

\* the position in args->bufs_ptr[] of the first descriptor whose
\* mapping_id is not registered; 0 when there is none
FirstUnknown(bufs) ==
    LET bad == {i \in DOMAIN bufs : bufs[i].id \notin MapIds}
    IN  IF bad = {} THEN 0 ELSE CHOOSE i \in bad : \A j \in bad : i <= j

\* what is remembered of the arguments and of the failures of the first
\* part of the call
NoteArgs(c, p, a) ==
    [c EXCEPT !.w.acct[p].unknownAt = FirstUnknown(a.bufs),
              !.w.acct[p].dataWords = a.words,
              !.w.acct[p].badArgs = a.reserved \/ ~a.ctxOk,
              !.w.acct[p].faulted = c.hit,
              !.w.acct[p].defect =
                  \/ a.reserved
                  \/ \E i \in DOMAIN a.bufs :
                        a.bufs[i].defect \in {"flags", "reserved"}
                  \/ a.incr.defect \in {"second", "flags", "reserved"}]

\* tegra_drm_channel_ctx_lock(fpriv, args->channel_ctx): the lock of the
\* file is held when it returns a context and is not when it returns NULL
CtxLock(fl, p, found) == [fl EXCEPT ![p] = IF found THEN p ELSE @]

\* lines 642-676: from the entry to the reservation of the unblocking
\* increment
SubPrepare(p, a) ==
    /\ sub[p].pc = "idle"
    \* the callers are numbered in the order in which they enter
    /\ \A q \in Callers : q < p => sub[q].pc # "idle"
    /\ a.reserved \/ flock[p] = 0
    /\ LET c == NoteArgs(
                  CreateJobHead(
                    ProcessBufs(
                      AllocJobData(
                        CopyGatherData(CheckArgs(Frame(p), a), p, a), a),
                      p, a),
                    p, a),
                  p, a)
       IN  /\ (a.fault # "none") = c.hit
           /\ SetFrame(p, c)
           /\ flock' = IF a.reserved THEN flock
                       ELSE CtxLock(flock, p, a.ctxOk)
    /\ UNCHANGED <<resvObj, extSignaled, pushq>>
    /\ EnvFrame

MaxGatherWords == 16383

\* what userspace can put into one struct drm_tegra_submit_cmd
Cmds ==
    {[type |-> "gather", words |-> n, defect |-> d] :
        n \in {0, 1, GatherWords, MaxGatherWords + 1},
        d \in {"none", "reserved"}}
    \cup {[type |-> "wait_syncpt", words |-> 0, defect |-> d] :
        d \in {"none", "reserved"}}
    \cup {[type |-> "wait_sync_file", words |-> 0, defect |-> d] :
        d \in {"none", "reserved", "fd"}}
    \cup {[type |-> "other", words |-> 0, defect |-> "none"]}

CmdInputs ==
    Inputs(Cmds, {a \in Cmds : /\ a.defect = "none"
                               /\ a.type = "gather" => a.words = GatherWords
                               /\ a.type \in {"gather", "wait_sync_file"}})

\* the commands the loop has still to read
CmdLists(n) == [1 .. n -> CmdInputs]

\* the free_job label of submit_create_job, then the caller's goto
FreeJob(c, p, e) ==
    FailF([c EXCEPT !.w = JobPut(@, p)], e, "free_job_data", "alloc")

\* a loop that takes every command it does not know for a wait on a
\* sync file
CmdRejectedKnown(cmd, goff, gwords) ==
    \/ cmd.defect # "none"
    \/ cmd.type = "gather" /\ cmd.words > MaxGatherWords
    \/ cmd.type = "gather" /\ goff + cmd.words > gwords

\* a loop that does not compare gather_offset with gather_data_len
CmdRejectedUnbounded(cmd, goff, gwords) ==
    \/ cmd.defect # "none"
    \/ cmd.type = "other"
    \/ cmd.type = "gather" /\ cmd.words > MaxGatherWords

\* lines 481-537: the tests that send a command to free_job with -EINVAL,
\* with gather_offset at goff and gather_data_len at gwords
CmdRejected(cmd, goff, gwords) ==
    \/ cmd.defect # "none"
    \/ cmd.type = "other"
    \/ cmd.type = "gather" /\ cmd.words > MaxGatherWords
    \/ cmd.type = "gather" /\ goff + cmd.words > gwords

\* the commands the loop reads before it first sleeps in dma_fence_wait()
RECURSIVE ReadCmds(_)
ReadCmds(cmds) ==
    IF cmds = <<>> THEN <<>>
    ELSE IF Head(cmds).type = "wait_sync_file" /\ Head(cmds).defect = "none"
    THEN <<Head(cmds)>>
    ELSE <<Head(cmds)>> \o ReadCmds(Tail(cmds))

\* what is remembered of the commands: one of them had a nonzero reserved
\* field, an unknown type or too many words; a failure of the environment
\* took place
NoteCmds(c, p, cmds) ==
    [c EXCEPT !.w.acct[p].defect =
                  \/ @
                  \/ \E i \in DOMAIN ReadCmds(cmds) :
                        \/ cmds[i].defect = "reserved"
                        \/ cmds[i].type = "other"
                        \/ cmds[i].type = "gather"
                           /\ cmds[i].words > MaxGatherWords,
              !.w.acct[p].anyWords =
                  \/ @
                  \/ \E i \in DOMAIN ReadCmds(cmds) :
                        cmds[i].type = "gather" /\ cmds[i].words > 0,
              !.w.acct[p].faulted = @ \/ c.hit]

\* line 495: host1x_job_add_gather(job, &bo->base, words, gather_offset*4)
JobAddGather(j, words, goff) ==
    [j EXCEPT !.gathers = Append(@, [words |-> words, off |-> goff * 4])]

\* the loop over the commands from cmds[i] on, until it ends, fails or
\* sleeps in dma_fence_wait()
RECURSIVE CmdLoop(_, _, _, _)
CmdLoop(c, p, cmds, i) ==
    IF i > Len(cmds) THEN c
    ELSE LET cmd == cmds[i]
         IN  IF CmdRejected(cmd, c.s.goff, c.s.gwords)
             THEN FreeJob(c, p, "EINVAL")
             ELSE IF cmd.type = "gather"
             THEN CmdLoop([c EXCEPT !.s = [@ EXCEPT !.goff = @ + cmd.words,
                                                    !.ncmds = @ - 1],
                                    !.w.job[p] = JobAddGather(@, cmd.words,
                                                              c.s.goff)],
                          p, cmds, i + 1)
             ELSE IF cmd.type = "wait_syncpt"
             THEN CmdLoop([c EXCEPT !.s = [@ EXCEPT !.ncmds = @ - 1],
                                    !.w.job[p].waits = @ \cup {c.sp.max}],
                          p, cmds, i + 1)
             ELSE [c EXCEPT !.s = [@ EXCEPT !.pc = "filewait"]]

\* lines 541-550: after the loop
AfterCmds(c, p) ==
    IF ~At(c, "cmds") THEN c
    ELSE IF c.s.goff = 0 THEN FreeJob(c, p, "EINVAL")
    ELSE [c EXCEPT !.s = [@ EXCEPT !.pc = "pin", !.goff = 0, !.gwords = 0]]

\* host1x_job_pin()
JobPin(c, p, ok) ==
    IF ~At(c, "pin") THEN c
    ELSE IF ok THEN [c EXCEPT !.s = [@ EXCEPT !.pc = "power"],
                              !.w.job[p].pinned = TRUE]
    ELSE FaultF(c, "ENOMEM", "put_job", "pin")

\* lines 478-675: the commands, then the pinning of the job
SubBuildJob(p, cmds, pinOk) ==
    /\ sub[p].pc = "cmds"
    /\ LET c == NoteCmds(
                  JobPin(AfterCmds(CmdLoop(Frame(p), p, cmds, 1), p), p, pinOk),
                  p, cmds)
       IN  /\ (~pinOk) = c.hit
           /\ SetFrame(p, c)
    /\ UNCHANGED <<flock, resvObj, extSignaled, pushq>>
    /\ EnvFrame

\* line 530: dma_fence_wait(f, true) returns, the fence having signalled or
\* a signal having interrupted the sleep, and the loop goes on
SubFileWait(p, interrupted, cmds, pinOk) ==
    /\ sub[p].pc = "filewait"
    /\ interrupted \/ extSignaled
    /\ LET c0 == Frame(p)
           c == IF interrupted
                THEN NoteCmds([FreeJob(c0, p, "ERESTARTSYS")
                                 EXCEPT !.hit = TRUE], p, <<>>)
                ELSE NoteCmds(JobPin(AfterCmds(CmdLoop(
                         [c0 EXCEPT !.s = [@ EXCEPT !.pc = "cmds",
                                                    !.ncmds = @ - 1]],
                         p, cmds, 1), p), p, pinOk), p, cmds)
       IN  /\ (interrupted \/ ~pinOk) = c.hit
           /\ interrupted => pinOk
           /\ SetFrame(p, c)
    /\ UNCHANGED <<flock, resvObj, extSignaled, pushq>>
    /\ EnvFrame

\* pm_runtime_get_sync(): 1 when the device was already active, 0 when it
\* was resumed, a negative error when the resume failed
PmGetSyncResult(active, ok) ==
    IF active THEN "1" ELSE IF ok THEN "0" ELSE "EIO"

\* the test of line 679
PowerUpFailed(err) == err # "0"

\* lines 678-690: boot the engine, hand job_data over to the job
SubPowerUp(p, ok) ==
    /\ sub[p].pc = "power"
    /\ Inject(ok)
    /\ pm[engOf[p]].active => ok
    /\ LET e == engOf[p]
           err == PmGetSyncResult(pm[e].active, ok)
       IN  /\ pm' = [pm EXCEPT ![e].usage = @ + 1,
                               ![e].active = @ \/ ok]
           /\ acct' = [acct EXCEPT ![p].pmNet = @ + 1]
           /\ IF PowerUpFailed(err)
              THEN /\ sub' = [sub EXCEPT ![p] =
                                Fail(@, err, "put_pm_runtime", "power")]
                   /\ UNCHANGED job
              ELSE /\ job' = [job EXCEPT ![p].rel = TRUE,
                                         ![p].user = sub[p].used]
                   /\ sub' = [sub EXCEPT ![p] =
                                [@ EXCEPT !.jd = "null",
                                     !.pc = IF sub[p].need THEN "resv" ELSE "push"]]
    /\ UNCHANGED <<flock, mapref, sp, resvObj, extSignaled, pushq>>
    /\ EnvFrame

\* drm_gem_fence_array_add_implicit(): every fence of the reservation for a
\* writer, the exclusive fence for a reader
ImplicitOf(um) ==
    IF um.write
    THEN ({resvObj[um.m].excl} \cup resvObj[um.m].shared) \ {NoFence}
    ELSE IF um.read THEN {resvObj[um.m].excl} \ {NoFence}
    ELSE {}

\* submit_handle_resv(), lines 294-312: the prefences of the used mappings
CollectImplicit(used) == UNION {ImplicitOf(used[i]) : i \in DOMAIN used}

\* lines 297-305: a shared slot is reserved for a mapping that is read and
\* not written
ReservesShared(um) == um.read /\ ~um.write

\* the buffers for which submit_handle_resv() reserved a shared slot
ReservedSlots(used) ==
    {used[i].m : i \in {j \in DOMAIN used : ReservesShared(used[j])}}

\* submit_handle_resv(); the locking itself is the subject of SpecResv
SubHandleResv(p, ok) ==
    /\ sub[p].pc = "resv"
    /\ Inject(ok)
    /\ sub' = [sub EXCEPT ![p] =
                 IF ok THEN [@ EXCEPT !.pc = "push",
                                      !.implicit = CollectImplicit(job[p].user)]
                 ELSE Fail(@, "EINTR", "put_pm_runtime", "resv")]
    /\ job' = [job EXCEPT ![p].deps =
                  IF ok THEN CollectImplicit(job[p].user) ELSE @]
    /\ acct' = [acct EXCEPT ![p].slots =
                   IF ok THEN ReservedSlots(job[p].user) ELSE @]
    /\ UNCHANGED <<flock, mapref, pm, sp, resvObj, extSignaled, pushq>>
    /\ EnvFrame

\* host1x_hw_channel_submit(): a job marked serialize waits for every
\* increment reserved before it; reserve the job's increments, record the
\* value at which it completes, queue it on the channel
HwChannelSubmit(s, j) ==
    LET s1 == SyncptIncrMax(s, j.k)
    IN  [sp |-> s1,
         job |-> [j EXCEPT !.end = s1.max, !.ref = @ + 1, !.prog = "queued",
                      !.waits = IF j.serialize THEN @ \cup {s.max} ELSE @]]

\* host1x_job_submit()
SubHwSubmit(p, ok) ==
    /\ sub[p].pc = "push"
    /\ Inject(ok)
    /\ IF ok
       THEN LET r == HwChannelSubmit(sp, job[p])
            IN  /\ sp' = r.sp
                /\ job' = [job EXCEPT ![p] = r.job]
                /\ pushq' = Append(pushq, p)
                /\ acct' = [acct EXCEPT ![p].reserved = @ + job[p].k]
                /\ sub' = [sub EXCEPT ![p] = [@ EXCEPT !.pc = "postfence"]]
       ELSE /\ sub' = [sub EXCEPT ![p] =
                         Fail(@, "ENOMEM", "unlock_resv", "submit")]
            /\ UNCHANGED <<sp, job, pushq, acct>>
    /\ UNCHANGED <<flock, mapref, pm, resvObj, extSignaled>>
    /\ EnvFrame

\* lines 580-581 and 583-584: which fence lists the postfence is added to
AddsShared(um) == um.read
AddsExcl(um) == um.write

\* dma_resv_add_shared_fence() then dma_resv_add_excl_fence(), as the
\* flags of the used mapping ask
AttachFence(r, um, f) ==
    LET r1 == IF AddsShared(um) THEN [r EXCEPT !.shared = @ \cup {f}] ELSE r
    IN  IF AddsExcl(um) THEN [r1 EXCEPT !.excl = f, !.shared = {}] ELSE r1

\* the buffers to which submit_create_postfences() adds a shared fence
SharedAdded(used) ==
    {used[i].m : i \in {j \in DOMAIN used : AddsShared(used[j])}}

RECURSIVE AttachFences(_, _, _)
AttachFences(ro, used, f) ==
    IF used = <<>> THEN ro
    ELSE AttachFences([ro EXCEPT ![Head(used).m] = AttachFence(@, Head(used), f)],
                      Tail(used), f)

\* a fence value that is never filled in
StaleFenceValue(j) == NoU32

\* line 574: incr->fence_value
FenceValue(j) == j.end

\* the value submit_create_postfences returns
PostfenceErr(outcome) ==
    CASE outcome = "ok" -> "0"
      [] outcome = "nofence" -> "ENOMEM"
      [] outcome = "nofd" -> "EMFILE"
      [] outcome = "nofile" -> "ENOMEM"

\* lines 709-711: submit_create_postfences(); its result is the ioctl's
SubPostfences(p, wantFile, outcome) ==
    /\ sub[p].pc = "postfence"
    /\ Inject(outcome = "ok")
    /\ outcome \in {"nofd", "nofile"} => wantFile
    /\ resvObj' = IF outcome = "nofence" THEN resvObj
                  ELSE AttachFences(resvObj, job[p].user,
                                    SyncptFence(job[p].end))
    /\ sub' = [sub EXCEPT ![p] =
                 [@ EXCEPT !.err = PostfenceErr(outcome),
                      !.phase = IF outcome = "ok" THEN @ ELSE "postfence",
                      !.fenceValue = IF outcome = "nofence" THEN @
                                     ELSE FenceValue(job[p]),
                      !.syncFile = wantFile /\ outcome = "ok",
                      !.label = "put_job",
                      !.pc = IF sub[p].need THEN "fencewait"
                             ELSE "unwind"]]
    /\ acct' = [acct EXCEPT ![p].shared =
                   IF outcome = "nofence" THEN @
                   ELSE SharedAdded(job[p].user)]
    /\ UNCHANGED <<job, flock, mapref, pm, sp, extSignaled, pushq>>
    /\ EnvFrame

\* lines 711-730: unlock the reservations, sleep until every prefence has
\* signalled, then make the increment that unblocks the job
SubUnblock(p) ==
    /\ sub[p].pc = "fencewait"
    /\ \A f \in sub[p].implicit : Signaled(f)
    /\ sp' = SyncptCpuIncr(sp)
    /\ sub' = [sub EXCEPT ![p] = [@ EXCEPT !.pc = "unwind"]]
    /\ UNCHANGED <<job, acct, flock, mapref, pm, resvObj, extSignaled,
                   pushq, events>>
    /\ EnvFrame

\* lines 735-737: pm_runtime_put(), host1x_job_unpin()
UnwindPutPm(w, p) == [PmPut(w, p) EXCEPT !.job[p].pinned = FALSE]

\* lines 740-747
FreeJobData(w, p, s) ==
    IF s.jd \in {"alloc", "filled"}
    THEN [MappingPutAll(w, p, s.used) EXCEPT !.acct[p].jdFrees = @ + 1]
    ELSE w

\* a return that leaves the lock of the file locked
MutexUnlockNone(fl, p) == fl
\* line 751: mutex_unlock(&fpriv->lock)
MutexUnlock(fl, p) == [fl EXCEPT ![p] = 0]

\* lines 732-752: the labels from sub[p].label on, and the return
SubUnwind(p) ==
    /\ sub[p].pc = "unwind"
    /\ LET from == sub[p].label
           w1 == IF Runs("put_pm_runtime", from) THEN UnwindPutPm(World, p)
                 ELSE World
           w2 == IF Runs("put_job", from) THEN JobPut(w1, p) ELSE w1
           w3 == IF Runs("free_job_data", from) THEN FreeJobData(w2, p, sub[p])
                 ELSE w2
           w4 == IF Runs("put_bo", from)
                 THEN [w3 EXCEPT !.acct[p].boNet = @ - 1] ELSE w3
           w5 == IF Runs("unlock", from)
                 THEN [w4 EXCEPT !.acct[p].unlocks = @ + 1] ELSE w4
       IN  /\ SetWorld(w5)
           /\ flock' = IF Runs("unlock", from) THEN MutexUnlock(flock, p)
                       ELSE flock
    /\ sub' = [sub EXCEPT ![p] = SubReturned(@)]
    /\ UNCHANGED <<sp, resvObj, extSignaled, pushq, events>>
    /\ EnvFrame

(***************************************************************************)
(* The engines and the rest of the system.                                 *)
(***************************************************************************)
\* the jobs pushed to the channel of engine e, in push order
ChannelQueue(e) == SelectSeq(pushq, LAMBDA j : engOf[j] = e)

\* the jobs pushed to j's channel before j
Earlier(j) ==
    LET q == ChannelQueue(engOf[j])
    IN  {q[i] : i \in {n \in DOMAIN q : \E m \in DOMAIN q : m > n /\ q[m] = j}}

\* the channel reaches job j: the jobs before it have executed and every
\* wait of j is satisfied
HwStart(j) ==
    /\ job[j].prog = "queued"
    /\ \A i \in Earlier(j) : job[i].prog = "executed"
    /\ \A thr \in job[j].waits : SyncptIsExpired(sp, thr)
    /\ job' = [job EXCEPT ![j].prog = "running",
                          ![j].early = \E f \in job[j].deps : ~Signaled(f)]
    /\ UNCHANGED <<sub, acct, flock, mapref, pm, sp, resvObj, extSignaled,
                   pushq, events>>
    /\ EnvFrame

\* the engine performs one of the job's syncpoint increments
HwIncr(j) ==
    /\ job[j].prog = "running"
    /\ sp' = SyncptHwIncr(sp)
    /\ job' = [job EXCEPT ![j].incrs = @ + 1,
                          ![j].prog = IF job[j].incrs + 1 = job[j].k
                                      THEN "executed" ELSE @]
    /\ UNCHANGED <<sub, acct, flock, mapref, pm, resvObj, extSignaled,
                   pushq, events>>
    /\ EnvFrame

\* the channel retires job j: min has reached the value reserved for it
HwRetire(j) ==
    /\ job[j].prog \in {"queued", "running", "executed"}
    /\ ~job[j].retired
    /\ \A i \in Earlier(j) : job[i].retired
    /\ SyncptIsExpired(sp, job[j].end)
    /\ SetWorld(JobPut([World EXCEPT !.job[j].retired = TRUE], j))
    /\ UNCHANGED <<sub, flock, sp, resvObj, extSignaled, pushq, events>>
    /\ EnvFrame

\* runtime PM suspends an engine nobody uses
PmSuspend(e) ==
    /\ pm[e].active
    /\ pm[e].usage = 0
    /\ pm' = [pm EXCEPT ![e].active = FALSE]
    /\ UNCHANGED <<sub, job, acct, flock, mapref, sp, resvObj, extSignaled,
                   pushq, events>>
    /\ EnvFrame

\* the fence of the other driver signals
ExtSignal ==
    /\ ~extSignaled
    /\ extSignaled' = TRUE
    /\ UNCHANGED <<sub, job, acct, flock, mapref, pm, sp, resvObj, pushq,
                   events>>
    /\ EnvFrame

\* tegra_syncpt_incr(): the ioctl that forces an increment
ForcedIncr ==
    /\ events > 0
    /\ events' = events - 1
    /\ sp' = SyncptCpuIncr(sp)
    /\ UNCHANGED <<sub, job, acct, flock, mapref, pm, resvObj, extSignaled,
                   pushq>>
    /\ EnvFrame

SubmitNext ==
    \/ \E p \in Callers :
          /\ sub[p].pc = "idle"
          /\ \E a \in SubmitArgs : SubPrepare(p, a) /\ SubmitFrame
    \/ \E p \in Callers :
          /\ sub[p].pc = "cmds"
          /\ \E c \in CmdLists(sub[p].ncmds), ok \in BOOLEAN :
                SubBuildJob(p, c, ok) /\ SubmitFrame
    \/ \E p \in Callers :
          /\ sub[p].pc = "filewait"
          /\ \E c \in CmdLists(sub[p].ncmds - 1), i \in BOOLEAN,
                ok \in BOOLEAN : SubFileWait(p, i, c, ok) /\ SubmitFrame
    \/ \E p \in Callers, ok \in BOOLEAN : SubPowerUp(p, ok) /\ SubmitFrame
    \/ \E p \in Callers, ok \in BOOLEAN : SubHandleResv(p, ok) /\ SubmitFrame
    \/ \E p \in Callers, ok \in BOOLEAN : SubHwSubmit(p, ok) /\ SubmitFrame
    \/ \E p \in Callers, w \in Inputs(BOOLEAN, {FALSE}),
          o \in {"ok", "nofence", "nofd", "nofile"} :
          SubPostfences(p, w, o) /\ SubmitFrame
    \/ \E p \in Callers : SubUnblock(p) /\ SubmitFrame
    \/ \E p \in Callers : SubUnwind(p) /\ SubmitFrame
    \/ \E j \in Callers : HwStart(j) /\ SubmitFrame
    \/ \E j \in Callers : HwIncr(j) /\ SubmitFrame
    \/ \E j \in Callers : HwRetire(j) /\ SubmitFrame
    \/ \E e \in Engines : PmSuspend(e) /\ SubmitFrame
    \/ ExtSignal /\ SubmitFrame
    \/ ForcedIncr /\ SubmitFrame

(***************************************************************************)
(* Sync points of syncpoints: drivers/gpu/host1x/fence.c.  A sync point    *)
(* is a struct host1x_sync_pt {base, threshold}; base.parent is the        *)
(* timeline it was created on, a struct host1x_sync_timeline {base, host,  *)
(* syncpt} when host1x made it.                                            *)
(***************************************************************************)
Syncpts == 1 .. NumSyncpts

\* u32 + u32, modulo 2^32
U32Plus(a, b) ==
    LET lo == a[2] + b[2]
    IN  <<(a[1] + b[1] + (lo \div Limb)) % Limb, lo % Limb>>

\* unsigned comparison
U32Below(a, b) == a[1] < b[1] \/ (a[1] = b[1] /\ a[2] < b[2])
U32AtMost(a, b) == a = b \/ U32Below(a, b)

U32Zero == <<0, 0>>
U32Max == <<Limb - 1, Limb - 1>>
\* 2^31: half the range of the counter
HalfRange == <<Limb \div 2, 0>>

\* the numbers of increments reserved or performed in one step: 1, 0x20,
\* 2^30 and 2^31 + 1
Strides == {<<0, 1>>, <<0, 32>>, <<Limb \div 4, 0>>, <<Limb \div 2, 1>>}

\* the value of the syncpoints at the start: 0xFFFFFFF0
FenceStart == <<Limb - 1, Limb - 16>>

\* the thresholds userspace and jobs ask sync points for
Thresholds(s) == {fsp[s].max, <<0, 16>>}

\* host1x_sync_timeline_create(host, syncpt)
Host1xTimeline(s) == [ops |-> "host1x", syncpt |-> s]
\* the struct sync_timeline of another driver; it has no syncpt member
OtherTimeline == [ops |-> "other", syncpt |-> 0]
\* syncpt->timeline
TimelineOf(s) == Host1xTimeline(s)

\* increments reserved and not yet performed
Outstanding(s) == U32Sub(fsp[s].max, fsp[s].min)

\* what is remembered of a threshold besides the structures of the code:
\* whether min has been seen at or past it, how far past it min has moved
\* since, and whether that is 2^31 or more
NoHistory == [hit |-> FALSE, dist |-> U32Zero, far |-> FALSE]

\* min moves n further past a threshold it had passed by h.dist
MovePast(h, n) ==
    LET lo == h.dist[2] + n[2]
        hi == h.dist[1] + n[1] + (lo \div Limb)
    IN  IF h.far \/ hi >= Limb \div 2
        THEN [h EXCEPT !.far = TRUE]
        ELSE [h EXCEPT !.dist = <<hi, lo % Limb>>]

\* the sync point host1x_sync_pt_create(host, syncpt, threshold) returns
\* when nothing fails
SyncPtCreate(s, threshold) ==
    [parent |-> TimelineOf(s), threshold |-> threshold]

\* a comparison for equality with the threshold
HasSignaledExact(pt) == fsp[pt.parent.syncpt].min = pt.threshold
\* a comparison of max, not min, with the threshold
HasSignaledReserved(pt) ==
    LET s == fsp[pt.parent.syncpt]
    IN  SyncptIsExpired([s EXCEPT !.min = s.max], pt.threshold)
\* host1x_sync_pt_has_signaled(spt)
HasSignaled(pt) == SyncptIsExpired(fsp[pt.parent.syncpt], pt.threshold)

\* an extract that does not look at the timeline's ops
ExtractUnchecked(pt, syncpt, threshold) ==
    [ret |-> TRUE, syncpt |-> pt.parent.syncpt, threshold |-> pt.threshold]
\* host1x_sync_pt_extract(pt, &syncpt, &threshold); syncpt and threshold
\* are what the caller's variables hold before the call
Extract(pt, syncpt, threshold) ==
    IF pt.parent.ops # "host1x"
    THEN [ret |-> FALSE, syncpt |-> syncpt, threshold |-> threshold]
    ELSE [ret |-> TRUE, syncpt |-> pt.parent.syncpt,
          threshold |-> pt.threshold]

\* what the caller's variables can hold before the call
StaleSyncpts == Syncpts \cup {0}
StaleThresholds == {NoU32, <<0, 16>>}

\* per sync point: whether it has been extracted, and with what result
NoExtract ==
    [done |-> FALSE, inSyncpt |-> 0, inThreshold |-> NoU32,
     out |-> [ret |-> FALSE, syncpt |-> 0, threshold |-> NoU32]]
\* per syncpoint: the threshold last reserved, whether it was reserved at
\* most 2^31 ahead of min, its history, and the reservations (jobs) the
\* engine has still to perform, oldest first
NoResv ==
    [valid |-> FALSE, t |-> NoU32, window |-> FALSE, h |-> NoHistory,
     pending |-> <<>>]

FenceInitState ==
    /\ fsp = [s \in Syncpts |-> [min |-> FenceStart, max |-> FenceStart]]
    /\ pts = <<>>
    /\ ext = [i \in 1 .. MaxPoints |-> NoExtract]
    /\ resv = [s \in Syncpts |-> NoResv]
    /\ freserves = MaxReserves

\* no sync point is ever made
FenceIdleState ==
    /\ fsp = [s \in Syncpts |-> [min |-> FenceStart, max |-> FenceStart]]
    /\ pts = <<>>
    /\ ext = [i \in 1 .. MaxPoints |-> NoExtract]
    /\ resv = [s \in Syncpts |-> NoResv]
    /\ freserves = 0

FenceFrame == UNCHANGED <<chanVars, resvVars, submitVars, unitVars>>

\* host1x_sync_pt_create(host, syncpt, threshold) succeeds; by, s and t
\* remember how the point was made
FCreate(s, t) ==
    /\ Len(pts) < MaxPoints
    /\ pts' = Append(pts, [pt |-> SyncPtCreate(s, t), by |-> "host1x",
                           s |-> s, t |-> t, h |-> NoHistory])
    /\ UNCHANGED <<fsp, ext, resv, freserves>>
    /\ FenceFrame

\* another driver creates a sync point on its own timeline
FForeign ==
    /\ Len(pts) < MaxPoints
    /\ pts' = Append(pts, [pt |-> [parent |-> OtherTimeline,
                                   threshold |-> NoU32],
                           by |-> "other", s |-> 0, t |-> NoU32,
                           h |-> NoHistory])
    /\ UNCHANGED <<fsp, ext, resv, freserves>>
    /\ FenceFrame

\* the sync framework asks a point of host1x whether it has signalled, and
\* is told it has
FHasSignaled(i) ==
    /\ i \in DOMAIN pts
    /\ pts[i].by = "host1x"
    /\ ~pts[i].h.hit
    /\ HasSignaled(pts[i].pt)
    /\ pts' = [pts EXCEPT ![i].h =
                 MovePast([hit |-> TRUE, dist |-> U32Zero, far |-> FALSE],
                          U32Sub(fsp[pts[i].s].min, pts[i].t))]
    /\ UNCHANGED <<fsp, ext, resv, freserves>>
    /\ FenceFrame

\* host1x_sync_fence_wait() and the like extract a point
FExtract(i, syncpt, threshold) ==
    /\ i \in DOMAIN pts
    /\ ext' = [ext EXCEPT ![i] =
                  [done |-> TRUE, inSyncpt |-> syncpt,
                   inThreshold |-> threshold,
                   out |-> Extract(pts[i].pt, syncpt, threshold)]]
    /\ UNCHANGED <<fsp, pts, resv, freserves>>
    /\ FenceFrame

\* host1x_syncpt_incr_max(sp, n): n increments are reserved; fewer than
\* 2^32 are outstanding at any time
FReserve(s, n) ==
    /\ freserves > 0
    /\ U32AtMost(n, U32Sub(U32Max, Outstanding(s)))
    /\ LET t == U32Plus(fsp[s].max, n)
       IN  /\ fsp' = [fsp EXCEPT ![s].max = t]
           /\ resv' = [resv EXCEPT ![s] =
                         [valid |-> TRUE, t |-> t,
                          window |-> U32AtMost(U32Sub(t, fsp[s].min), HalfRange),
                          h |-> NoHistory,
                          pending |-> Append(resv[s].pending, n)]]
    /\ freserves' = freserves - 1
    /\ UNCHANGED <<pts, ext>>
    /\ FenceFrame

\* min moving on by n reaches or passes threshold t
Reaches(s, t, n) == U32AtMost(U32Sub(t, fsp[s].min), n)

\* the history of the threshold last reserved on s after min moved on by n
ResvHistory(s, n) ==
    LET h == resv[s].h
    IN  IF h.hit THEN MovePast(h, n)
        ELSE IF Reaches(s, resv[s].t, n)
             THEN MovePast([h EXCEPT !.hit = TRUE],
                           U32Sub(U32Plus(fsp[s].min, n), resv[s].t))
             ELSE h

\* the engine performs the increments of the oldest reservation
FAdvance(s) ==
    /\ resv[s].pending # <<>>
    /\ fsp' = [fsp EXCEPT ![s].min = U32Plus(@, Head(resv[s].pending))]
    /\ resv' = [resv EXCEPT ![s].h = ResvHistory(s, Head(resv[s].pending)),
                            ![s].pending = Tail(@)]
    /\ pts' = [i \in DOMAIN pts |->
                 IF pts[i].s = s /\ pts[i].h.hit
                 THEN [pts[i] EXCEPT !.h = MovePast(@, Head(resv[s].pending))]
                 ELSE pts[i]]
    /\ UNCHANGED <<ext, freserves>>
    /\ FenceFrame

(***************************************************************************)
(* Relocations: submit_write_reloc() and its call in submit_process_bufs() *)
(* (drivers/gpu/drm/tegra/uapi/submit.c).  A 64-bit or 32-bit value is the *)
(* set of the positions of its bits that are 1; dma_addr_t and unsigned    *)
(* long have 64 bits.                                                      *)
(***************************************************************************)
\* a + b modulo 2^64, from bit i on, with the carry into bit i
RECURSIVE AddBits(_, _, _, _)
AddBits(a, b, i, carry) ==
    IF i > 63 THEN {}
    ELSE LET n == (IF i \in a THEN 1 ELSE 0) + (IF i \in b THEN 1 ELSE 0)
                  + carry
         IN  (IF n % 2 = 1 THEN {i} ELSE {}) \cup AddBits(a, b, i + 1, n \div 2)

\* mapping->iova + buf->reloc.target_offset
Add64(a, b) == AddBits(a, b, 0, 0)

\* a >> s for s < 64
ShiftRight(a, s) == {b - s : b \in {x \in a : x >= s}}

\* iova >> buf->reloc.shift: a shift by 64 or more is undefined, and gives
\* the shift by the low six bits of the count or zero
ShiftOutcomes(a, s) ==
    IF s < 64 THEN {ShiftRight(a, s)} ELSE {ShiftRight(a, s % 64), {}}

\* the conversion to u32
Low32(a) == a \cap (0 .. 31)

\* BIT(39), an unsigned long
Bit39 == {39}

\* written_ptr |= BIT(39), written_ptr being a u32
OrBit39(w) == Low32(w \cup Bit39)

\* lines 205-209: the values written_ptr can have
WrittenPtrs(iova, toff, shift, bl) ==
    {IF bl THEN OrBit39(Low32(x)) ELSE Low32(x) :
        x \in ShiftOutcomes(Add64(iova, toff), shift)}

\* array_index_nospec(index, size)
ArrayIndexNospec(index, size) == IF index < size THEN index ELSE 0

\* a write with no test of the offset, where the array does not end the
\* memory that can be written
WriteAnywhere(data, off, w) ==
    [err |-> "0",
     data |-> [i \in 1 .. (IF off < Len(data) THEN Len(data) ELSE off + 1) |->
                 IF i = off + 1 THEN w
                 ELSE IF i <= Len(data) THEN data[i] ELSE {}]]

\* lines 211-219 of submit_write_reloc(): the test of gather_offset_words
\* and the write of written_ptr w into bo->gather_data, here data
WriteReloc(data, off, w) ==
    IF off >= Len(data) THEN [err |-> "EINVAL", data |-> data]
    ELSE [err |-> "0",
          data |-> [data EXCEPT ![ArrayIndexNospec(off, Len(data)) + 1] = w]]

\* the addresses of the mappings: 0x1000, 0x8000001000, 0x1_0000_2000
RelocIovas == {{12}, {12, 39}, {13, 32}}
\* target_offset: 0, 0x100, -0x1000
RelocTargets == {{}, {8}, 12 .. 63}
\* reloc.shift
RelocShifts == {0, 8, 64}
\* the words of the gather data before the call
RelocOldWords == {{}, {0, 31}}

RelocIdle ==
    [pc |-> "unused", data0 |-> <<>>, data |-> <<>>, off |-> 0, iova |-> {},
     toff |-> {}, shift |-> 0, bl |-> FALSE, err |-> "none", ref |-> 0]

\* before submit_process_bufs() comes to a buffer: the gather data copied,
\* the mapping registered with one reference
RelocInitState ==
    \E d \in [1 .. RelocWords -> RelocOldWords], o \in 0 .. (RelocWords + 1),
       a \in RelocIovas, t \in RelocTargets, s \in RelocShifts,
       b \in BOOLEAN :
       reloc = [RelocIdle EXCEPT !.pc = "idle", !.data0 = d, !.data = d,
                                 !.off = o, !.iova = a, !.toff = t,
                                 !.shift = s, !.bl = b, !.ref = 1]

RelocFrame ==
    UNCHANGED <<chanVars, resvVars, submitVars, fenceVars, fwait, vicst>>

\* line 363: tegra_drm_mapping_get()
RelocGet ==
    /\ reloc.pc = "idle"
    /\ reloc' = [reloc EXCEPT !.pc = "got", !.ref = @ + 1]
    /\ RelocFrame

\* line 371: submit_write_reloc(bo, buf, mapping)
RelocWrite(w) ==
    /\ reloc.pc = "got"
    /\ LET r == WriteReloc(reloc.data, reloc.off, w)
       IN  reloc' = [reloc EXCEPT !.pc = "wrote", !.err = r.err,
                                  !.data = r.data]
    /\ RelocFrame

\* line 372: the test of the error of submit_write_reloc()
PutsRefOnError(err) == err # "0"

\* lines 372-377: tegra_drm_mapping_put() and drop_refs on an error, else
\* the mapping is kept in mappings[i]
RelocFinish ==
    /\ reloc.pc = "wrote"
    /\ reloc' = [reloc EXCEPT !.pc = "done",
                    !.ref = IF PutsRefOnError(reloc.err) THEN @ - 1 ELSE @]
    /\ RelocFrame

RelocNext ==
    \/ RelocGet
    \/ \E w \in WrittenPtrs(reloc.iova, reloc.toff, reloc.shift, reloc.bl) :
          RelocWrite(w)
    \/ RelocFinish
(***************************************************************************)
(* host1x_sync_fence_wait() (drivers/gpu/host1x/fence.c).                  *)
(***************************************************************************)
\* no call of host1x_sync_fence_wait() yet
NoWait == [done |-> FALSE, fence |-> <<>>, pushed |-> <<>>, ret |-> FALSE]

\* a loop that pushes a wait for every point of host1x
WaitNeededAlways(syncpt, threshold) == TRUE
\* line 151: a wait is pushed unless host1x_syncpt_is_expired()
WaitNeeded(syncpt, threshold) == ~SyncptIsExpired(fsp[syncpt], threshold)

\* host1x_hw_channel_push_wait(host, ch, id, threshold)
PushWait(pushed, id, threshold) ==
    Append(pushed, [id |-> id, thr |-> threshold])

\* the loop of host1x_sync_fence_wait() over fence->cbs[i ..], here the
\* sync points points[i ..]; st holds the locals syncpt, threshold and
\* non_host1x and the waits pushed to the channel
RECURSIVE SyncFenceWait(_, _, _)
SyncFenceWait(points, i, st) ==
    IF i > Len(points) THEN st
    ELSE LET e == Extract(points[i], st.syncpt, st.threshold)
             s1 == [st EXCEPT !.syncpt = e.syncpt, !.threshold = e.threshold]
         IN  IF ~e.ret
             THEN SyncFenceWait(points, i + 1, [s1 EXCEPT !.non = TRUE])
             ELSE IF ~WaitNeeded(e.syncpt, e.threshold)
             THEN SyncFenceWait(points, i + 1, s1)
             ELSE SyncFenceWait(points, i + 1,
                     [s1 EXCEPT !.pushed = PushWait(@, e.syncpt, e.threshold)])

\* the fences that can be made of the sync points: each a sequence of
\* different points
FencesOf(n) ==
    {f \in UNION {[1 .. k -> 1 .. n] : k \in 1 .. n} :
        \A i, j \in DOMAIN f : i # j => f[i] # f[j]}

\* host1x_sync_fence_wait(fence, host, ch) on the fence of the points
\* pts[comps[1]], pts[comps[2]], ...
FSyncFenceWait(comps) ==
    /\ ~fwait.done
    /\ LET points == [i \in DOMAIN comps |-> pts[comps[i]].pt]
           r == SyncFenceWait(points, 1,
                   [syncpt |-> 0, threshold |-> NoU32, non |-> FALSE,
                    pushed |-> <<>>])
       IN  fwait' = [done |-> TRUE, fence |-> comps, pushed |-> r.pushed,
                     ret |-> r.non]
    /\ UNCHANGED <<chanVars, resvVars, submitVars, fenceVars, reloc, vicst>>

\* making and extracting sync points
BridgeNext ==
    \/ \E s \in Syncpts : \E t \in Thresholds(s) : FCreate(s, t)
    \/ FForeign
    \/ \E i \in 1 .. MaxPoints : \E s \in StaleSyncpts :
          \E t \in StaleThresholds : FExtract(i, s, t)
    \/ \E f \in FencesOf(Len(pts)) : FSyncFenceWait(f)

\* sync points of host1x while the counters move
FenceNext ==
    \/ \E s \in Syncpts : \E t \in Thresholds(s) : FCreate(s, t)
    \/ \E i \in 1 .. MaxPoints : FHasSignaled(i)
    \/ \E s \in Syncpts : \E n \in Strides : FReserve(s, n)
    \/ \E s \in Syncpts : FAdvance(s)
(***************************************************************************)
(* vic.c: vic_open_channel() and vic_close_channel().                      *)
(***************************************************************************)
VicCtxs == 1 .. NumVicCtx
\* vic->channel, the channel vic_init() requested
VicChannel == 0

NoNet == [usage |-> 0, chref |-> 0]

\* the engine after vic_init(): suspended, not booted, no context open, its
\* channel referenced once; net is what the last open of a context and the
\* close after it have added to the two counts
VicIdle ==
    [usage |-> 0, active |-> FALSE, booted |-> FALSE,
     chref |-> [i \in {VicChannel} |-> 1],
     ctx |-> [c \in VicCtxs |-> "closed"],
     err |-> [c \in VicCtxs |-> "0"],
     net |-> [c \in VicCtxs |-> NoNet],
     opens |-> 0]

\* pm_runtime_get_sync(vic->dev): the usage count is incremented whether
\* or not the resume succeeds
VicPmGetSync(v, c, ok) ==
    [v EXCEPT !.usage = @ + 1, !.active = @ \/ ok, !.net[c].usage = @ + 1]

\* pm_runtime_put(vic->dev)
VicPmPut(v, c) == [v EXCEPT !.usage = @ - 1, !.net[c].usage = @ - 1]

\* line 277: err < 0
VicNegative(err) == err \notin {"0", "1"}

\* vic_boot(): nothing to do when the engine is booted; else the firmware
\* is read and loaded, which can fail
VicBoot(v, ok) ==
    IF v.booted THEN [v |-> v, err |-> "0"]
    ELSE IF ok THEN [v |-> [v EXCEPT !.booted = TRUE], err |-> "0"]
    ELSE [v |-> v, err |-> "ENOENT"]

\* host1x_channel_get(vic->channel)
VicChannelGet(v, c) ==
    [v EXCEPT !.chref = KrefGet(@, VicChannel), !.net[c].chref = @ + 1]

\* host1x_channel_put(context->channel); the channel of the engine keeps
\* the reference of vic_init()
VicChannelPut(v, c) ==
    [v EXCEPT !.chref[VicChannel] = KrefPutValue(@), !.net[c].chref = @ - 1]

VicReturn(v, c, err) ==
    [v EXCEPT !.ctx[c] = IF err = "0" THEN "open" ELSE "failed",
              !.err[c] = err, !.opens = @ + 1]

VicFrame ==
    UNCHANGED <<chanVars, resvVars, submitVars, fenceVars, reloc, fwait>>

\* vic_open_channel(client, context)
VicOpenChannel(c, pmOk, bootOk) ==
    /\ vicst.ctx[c] # "open"
    /\ vicst.opens < MaxVicOpens
    /\ vicst.active => pmOk
    /\ LET err == PmGetSyncResult(vicst.active, pmOk)
           v1 == VicPmGetSync([vicst EXCEPT !.net[c] = NoNet], c, pmOk)
       IN  IF VicNegative(err)
           THEN vicst' = VicReturn(v1, c, err)
           ELSE LET b == VicBoot(v1, bootOk)
                IN  IF VicNegative(b.err)
                    THEN vicst' = VicReturn(VicPmPut(b.v, c), c, b.err)
                    ELSE vicst' = VicReturn(VicChannelGet(b.v, c), c, "0")
    /\ VicFrame

\* vic_close_channel(context)
VicCloseChannel(c) ==
    /\ vicst.ctx[c] = "open"
    /\ vicst' = [VicPmPut(VicChannelPut(vicst, c), c) EXCEPT
                    !.ctx[c] = "closed"]
    /\ VicFrame

\* vic_runtime_suspend(), once the usage count is zero
VicRuntimeSuspend ==
    /\ vicst.usage = 0
    /\ vicst.active
    /\ vicst' = [vicst EXCEPT !.active = FALSE, !.booted = FALSE]
    /\ VicFrame

VicNext ==
    \/ \E c \in VicCtxs : \E pmOk, bootOk \in BOOLEAN :
          VicOpenChannel(c, pmOk, bootOk)
    \/ \E c \in VicCtxs : VicCloseChannel(c)
    \/ VicRuntimeSuspend
\* none of the single functions is called
UnitIdleState ==
    /\ reloc = RelocIdle
    /\ fwait = NoWait
    /\ vicst = VicIdle
InitChan ==
    /\ ChInitState /\ ResvIdleState /\ SubmitIdleState
    /\ FenceIdleState /\ UnitIdleState

InitResv ==
    /\ ChInitState /\ ResvInitState /\ SubmitIdleState
    /\ FenceIdleState /\ UnitIdleState

SpecChan == InitChan /\ [][ChNext]_vars

\* the pool with one more caller, all of which wait for their channel
InitChanWait ==
    /\ ChStart(NumChProcs + NumChExtra)
    /\ ResvIdleState /\ SubmitIdleState
    /\ FenceIdleState /\ UnitIdleState

SpecChanWait == InitChanWait /\ [][ChWaitNext]_vars

SpecResv == InitResv /\ [][ResvNext]_vars


InitSubmit ==
    /\ ChInitState /\ ResvIdleState /\ SubmitStart(Callers)
    /\ FenceIdleState /\ UnitIdleState

SpecSubmit == InitSubmit /\ [][SubmitNext]_vars

\* one call, made alone
InitCall ==
    /\ ChInitState /\ ResvIdleState /\ SubmitStart({1})
    /\ FenceIdleState /\ UnitIdleState

SpecCall == InitCall /\ [][SubmitNext]_vars

InitFence ==
    /\ ChInitState /\ ResvIdleState /\ SubmitIdleState /\ FenceInitState
    /\ UnitIdleState

\* sync points made and extracted
SpecBridge == InitFence /\ [][BridgeNext]_vars

\* sync points made on syncpoints whose counters move
SpecFence == InitFence /\ [][FenceNext]_vars

InitReloc ==
    /\ ChInitState /\ ResvIdleState /\ SubmitIdleState /\ FenceIdleState
    /\ RelocInitState /\ fwait = NoWait /\ vicst = VicIdle

\* one buffer of submit_process_bufs() and its relocation
SpecReloc == InitReloc /\ [][RelocNext]_vars

InitVic ==
    /\ ChInitState /\ ResvIdleState /\ SubmitIdleState /\ FenceIdleState
    /\ UnitIdleState

\* contexts of the VIC opened and closed
SpecVic == InitVic /\ [][VicNext]_vars
(***************************************************************************)
(* Claims about vic.c.                                                     *)
(***************************************************************************)
\* C37: a vic_open_channel() that failed, because the runtime-power get or
\* the boot failed, has left the usage count of the engine and the
\* reference count of the channel as they were, and a vic_close_channel()
\* after an open that succeeded has restored both.
C37_OpenUnwound ==
    \A c \in VicCtxs :
       vicst.ctx[c] \in {"failed", "closed"} => vicst.net[c] = NoNet

\* the same for the opens that did not fail in pm_runtime_get_sync()
C37_UnwoundButGet ==
    \A c \in VicCtxs :
       /\ vicst.ctx[c] = "closed" => vicst.net[c] = NoNet
       /\ vicst.ctx[c] = "failed" /\ vicst.err[c] = "ENOENT" =>
             vicst.net[c] = NoNet
       /\ vicst.ctx[c] = "open" => vicst.net[c] = [usage |-> 1, chref |-> 1]
(***************************************************************************)
(* Claims about the relocations.                                           *)
(***************************************************************************)
\* C32: submit_write_reloc() writes one word, the one at index
\* gather_offset_words, and only when gather_offset_words is less than
\* gather_data_len; otherwise it returns -EINVAL, the gather data are as
\* they were, and the reference taken on the mapping has been put.
C32_RelocInsideGather ==
    /\ reloc.pc \in {"wrote", "done"} =>
          /\ Len(reloc.data) = Len(reloc.data0)
          /\ IF reloc.off < Len(reloc.data0)
             THEN /\ reloc.err = "0"
                  /\ \A i \in DOMAIN reloc.data0 :
                        i # reloc.off + 1 => reloc.data[i] = reloc.data0[i]
                  /\ reloc.data[reloc.off + 1] \in
                        WrittenPtrs(reloc.iova, reloc.toff, reloc.shift,
                                    reloc.bl)
             ELSE /\ reloc.err = "EINVAL"
                  /\ reloc.data = reloc.data0
    /\ reloc.pc = "done" =>
          reloc.ref = (IF reloc.err = "0" THEN 2 ELSE 1)

\* the first offset outside the gather data is refused
C32_Witness ==
    /\ reloc.pc = "done"
    /\ reloc.off = RelocWords
    /\ reloc.err = "EINVAL"
    /\ reloc.data = reloc.data0
    /\ reloc.ref = 1

\* mapping->iova + target_offset of the relocation
RelocAddress == Add64(reloc.iova, reloc.toff)

\* C33: the word patched into the gather is the low 32 bits of
\* (iova + target_offset) >> shift when the buffer is not block-linear, and
\* with RELOC_BLOCKLINEAR the word carries the tag, bit 39 of the address:
\* for an address whose bit 39 is clear and a shift that brings bit 39
\* into the word, it differs from the word written without the flag.
C33_PatchedWord ==
    reloc.pc = "done" /\ reloc.err = "0" /\ reloc.shift < 64 =>
       LET word == reloc.data[reloc.off + 1]
           plain == Low32(ShiftRight(RelocAddress, reloc.shift))
       IN  /\ ~reloc.bl => word = plain
           /\ reloc.bl /\ 39 \notin RelocAddress /\ reloc.shift \in 8 .. 39 =>
                 word # plain

(***************************************************************************)
(* Claims about the reservation locking.                                   *)
(***************************************************************************)
\* the reservation locks submission s holds
HeldBy(s) == {b \in ResvBufs : resvOwner[b] = s}
\* the buffers of the used mappings of submission s
BufsOf(s) == {rmaps[s][i] : i \in DOMAIN rmaps[s]}

\* C23: when submit_handle_resv has returned 0, the job holds the
\* reservation lock of the buffer of each of its used mappings and no other
\* reservation lock.
C23_HoldsItsLocks ==
    \A s \in Subs : rpc[s] = "done" => HeldBy(s) = BufsOf(s)

\* no buffer is used by two mappings of one submission
DistinctBufs ==
    \A s \in Subs : Cardinality(BufsOf(s)) = Len(rmaps[s])

\* C24: with no buffer named twice by a submission, a submission that backs
\* off after -EDEADLK holds no reservation lock when it goes to sleep on the
\* contended one, and in no state has a submission unlocked a reservation
\* it did not hold or tried to lock one it already held.
C24_BackOffClean ==
    DistinctBufs =>
       /\ ~badUnlock
       /\ ~reLock
       /\ \A s \in Subs : rpc[s] \in {"slow", "slowwait"} => HeldBy(s) = {}

\* C28: a submission that sleeps in the slow-path lock of the contended
\* reservation after a back-off leaves the sleep only with the lock, to
\* retry the full lock set: no signal ends the sleep with an error.
C28_SlowPathCannotFail ==
    [][\A s \in Subs :
          rpc[s] = "slowwait" => rpc'[s] \in {"slowwait", "loop"}]_vars


\* C1: in every reachable state at most NumChannels channels are leased, and
\* two leases outstanding at the same time never refer to the same slot.
C1_LeasesBounded ==
    /\ Cardinality(Leases) <= NumChannels
    /\ \A p, q \in Leases : p # q => chslot[p] # chslot[q]

\* Every submission is out of submit_handle_resv: it returned an error, or
\* returned 0 and its caller has unlocked the reservations, or its task died.
ResvAllReturned == \A s \in Subs : rpc[s] \in {"failed", "released", "oops"}

\* C2: reservation locking is deadlock-free: each of the concurrent
\* submissions obtains all its locks or returns an error, so in every
\* reachable state either all of them have completed or one of them can still
\* take a step without waiting for a signal.
C2_ResvNoPermanentWait == ResvAllReturned \/ ENABLED ResvProgress


(***************************************************************************)
(* Claims about the submission ioctl and the syncpoint.                    *)
(***************************************************************************)
Pushed(p) == \E i \in DOMAIN pushq : pushq[i] = p
Returned(p) == sub[p].pc = "returned"
ReturnedError(p) == Returned(p) /\ sub[p].err # "0"

RECURSIVE SumOver(_, _)
SumOver(f, S) ==
    IF S = {} THEN 0
    ELSE LET x == CHOOSE y \in S : TRUE IN f[x] + SumOver(f, S \ {x})

\* the increments the jobs pushed so far were submitted with
PushedIncrs == SumOver([p \in Callers |-> IF Pushed(p) THEN job[p].k ELSE 0],
                       Callers)
\* the unblocking increments reserved when jobs were created
UnblockIncrs == SumOver([p \in Callers |-> IF job[p].unblock THEN 1 ELSE 0],
                        Callers)

\* C3 as stated: once every call has returned, max is the initial max plus
\* the sum of the k of the jobs that were submitted.
C3_MaxIsSumOfK ==
    (\A p \in Callers : Returned(p)) => sp.max = U32Add(sp0, PushedIncrs)

\* C3 amended: max is at every moment the initial max plus the k of every
\* job pushed so far plus one for every job created for a submission with
\* implicit-dependency buffers, whether that submission went on to be pushed
\* or failed; no reservation of concurrent callers is lost.
C3_MaxAccounting == sp.max = U32Add(sp0, PushedIncrs + UnblockIncrs)

C3_Witness ==
    /\ Len(pushq) = NumCallers
    /\ \E p \in Callers : job[p].unblock
    /\ \A p \in Callers : Returned(p)

\* the phases of the call C4 names
C4Phases == {"lookup", "alloc", "pin", "power", "resv", "submit"}

\* C4: a call that failed at buffer lookup, job allocation, pin, power-up,
\* reservation locking or hardware submit has, when it returns, put every
\* mapping reference and every runtime-PM reference it took: no count is
\* higher than before the call.
C4_NoLeakOnFailure ==
    \A p \in Callers :
       Returned(p) /\ sub[p].phase \in C4Phases =>
          /\ \A m \in MapIds : acct[p].mapNet[m] <= 0
          /\ acct[p].pmNet <= 0

C4_Witness ==
    \E p \in Callers :
       /\ Returned(p)
       /\ sub[p].phase = "resv"
       /\ sub[p].err # "0"
       /\ \A m \in MapIds : acct[p].mapNet[m] = 0

\* C5: a call that returns an error has released nothing more often than it
\* acquired it: mapping references, the job data, the gather buffer and the
\* runtime-PM reference.
C5_ReleasedOnce ==
    \A p \in Callers :
       ReturnedError(p) =>
          /\ \A m \in MapIds : acct[p].mapNet[m] >= 0
          /\ acct[p].pmNet >= 0
          /\ acct[p].boNet >= 0
          /\ acct[p].jdFrees <= 1

\* C6: a call that returns an error has pushed no job to the channel.
C6_NoErrorAfterPush ==
    \A p \in Callers : ReturnedError(p) => ~Pushed(p)

\* C7: after a call that failed before its job was pushed, the syncpoint's
\* max is what it was before the call.
C7_FailedLeavesMax ==
    \A p \in Callers : ReturnedError(p) /\ ~Pushed(p) => sp.max = sp0

\* C8: min <= max in the wrap-aware order, whatever submissions, engine
\* increments, unblocking increments and forced increments took place.
C8_MinLeqMax == U32Leq(sp.min, sp.max)

\* C9: no job starts on its channel while a fence collected as its implicit
\* dependency has not signalled.
C9_NoEarlyStart == \A j \in Callers : ~job[j].early

\* the value next after v
U32Next(v) == U32Add(v, 1)
U32Less(a, b) == a # b /\ U32Leq(a, b)

\* two jobs of one increment each, pushed one right after the other
OneIncrPair(i) ==
    /\ i \in DOMAIN pushq
    /\ i + 1 \in DOMAIN pushq
    /\ job[pushq[i]].k = 1
    /\ job[pushq[i + 1]].k = 1

\* C10 as stated: of two jobs of one increment each the later pushed gets
\* the fence value next after that of the earlier.
C10_Consecutive ==
    \A i \in DOMAIN pushq :
       OneIncrPair(i) => job[pushq[i + 1]].end = U32Next(job[pushq[i]].end)

\* C10 amended: a call that succeeds returns its job's syncpt_end; the
\* values of any two pushed jobs are distinct and increase in push order;
\* two jobs of one increment each get consecutive values provided no
\* submission to the syncpoint carries implicit-dependency buffers (such a
\* submission reserves an extra increment, which leaves a gap).
C10_FenceValues ==
    /\ \A p \in Callers :
          Returned(p) /\ sub[p].err = "0" =>
             Pushed(p) /\ sub[p].fenceValue = job[p].end
    /\ \A i, j \in DOMAIN pushq :
          i < j => U32Less(job[pushq[i]].end, job[pushq[j]].end)
    /\ \A i \in DOMAIN pushq :
          OneIncrPair(i) /\ (\A p \in Callers : ~job[p].unblock) =>
             job[pushq[i + 1]].end = U32Next(job[pushq[i]].end)

C10_Witness ==
    /\ Len(pushq) = 2
    /\ OneIncrPair(1)
    /\ \A p \in Callers : ~job[p].unblock
    /\ \A p \in Callers : Returned(p) /\ sub[p].err = "0"
    /\ job[pushq[2]].end = <<0, 0>>

\* C14: a submission with a buffer descriptor whose mapping id is not
\* registered, at whatever position, does not succeed, returns EINVAL unless
\* an allocation or a copy from userspace failed first, and leaves the
\* refcount of every mapping of the context and the channel pool as they
\* were before the call.
C14_UnknownMappingRejected ==
    \A p \in Callers :
       Returned(p) /\ acct[p].unknownAt # 0 =>
          /\ sub[p].err # "0"
          /\ ~acct[p].faulted => sub[p].err = "EINVAL"
          /\ mapref = [m \in MapIds |-> 1]
          /\ ~Pushed(p)
          /\ ChInitState

\* the unknown id came second, after a descriptor whose mapping was found
\* and referenced
C14_Witness ==
    \E p \in Callers :
       /\ Returned(p)
       /\ acct[p].unknownAt = 2
       /\ acct[p].gets = 1
       /\ sub[p].err = "EINVAL"
       /\ sub[p].phase = "lookup"

\* C15: the ioctl returns 0 or a negative status, never a positive value;
\* a call that finds the engine already powered on does not return the 1
\* that pm_runtime_get_sync reports for it.
C15_NoPositiveReturn ==
    \A p \in Callers : Returned(p) => sub[p].err # "1"

\* C21: a submission with a nonzero reserved field (in the arguments, a
\* buffer descriptor, a command or the increment descriptor), an unknown
\* flag of a buffer or of the increment descriptor, a command of unknown
\* type, a gather of more than 16383 words or a second increment descriptor
\* with a count does not succeed and pushes nothing; it returns EINVAL
\* unless an allocation, a copy from userspace or a sleep failed first.
C21_MalformedRejected ==
    \A p \in Callers :
       Returned(p) /\ acct[p].defect =>
          /\ sub[p].err # "0"
          /\ ~acct[p].faulted => sub[p].err = "EINVAL"
          /\ ~Pushed(p)

\* a malformed submission, rejected while its job was being created
C21_Witness ==
    \E p \in Callers :
       /\ Returned(p)
       /\ acct[p].defect
       /\ extSignaled
       /\ ~acct[p].faulted
       /\ sub[p].err = "EINVAL"
       /\ sub[p].phase = "alloc"

\* C22: as long as no increment is forced from outside, the syncpoint's min
\* reaches the fence value of a pushed job only when the engine has executed
\* that job, and the channel retires no job that it has not executed.
C22_FenceAfterExecution ==
    events = MaxEvents =>
       \A j \in Callers :
          Pushed(j) =>
             /\ SyncptIsExpired(sp, job[j].end) => job[j].prog = "executed"
             /\ job[j].retired => job[j].prog = "executed"

\* C26: a postfence is added as a shared fence only to a buffer for which
\* submit_handle_resv() reserved a shared slot while the locks were held,
\* whatever the RESV flags of the mapping, READ | WRITE included.
C26_SharedSlotReserved ==
    \A p \in Callers : acct[p].shared \subseteq acct[p].slots

\* C27: release_job() has run at most once for a pushed job, and when it has
\* run the ioctl has returned, the channel has retired the job, no job
\* reference is left, and every mapping reference and the runtime-PM
\* reference the call took are put exactly once; it has run once both job
\* references are gone. A job whose call returned before release was
\* attached never runs the callback: the ioctl has freed job_data at most
\* once and put the mapping references itself.
C27_ReleaseOnce ==
    \A p \in Callers :
       /\ Pushed(p) =>
             /\ acct[p].releases <= 1
             /\ acct[p].releases = 1 <=> job[p].ref = 0
             /\ acct[p].releases = 1 =>
                   /\ Returned(p)
                   /\ job[p].retired
                   /\ acct[p].jdFrees = 1
                   /\ acct[p].pmNet = 0
                   /\ \A m \in MapIds : acct[p].mapNet[m] = 0
             /\ acct[p].releases = 0 =>
                   /\ acct[p].jdFrees = 0
                   /\ acct[p].pmNet = 1
                   /\ \A m \in MapIds : acct[p].mapNet[m] >= 0
       /\ Returned(p) /\ ~job[p].rel =>
             /\ acct[p].releases = 0
             /\ acct[p].jdFrees <= 1
             /\ acct[p].pmNet = 0
             /\ \A m \in MapIds : acct[p].mapNet[m] = 0

C27_Witness ==
    /\ \E p \in Callers :
          Pushed(p) /\ acct[p].releases = 1 /\ Len(job[p].user) = 0
             /\ acct[p].gets > 0
    /\ \E p \in Callers :
          Returned(p) /\ ~job[p].rel /\ acct[p].jdFrees = 1

\* the call of p sleeps on a fence that has not signalled: the fence of a
\* WAIT_SYNC_FILE command, or a prefence before the unblocking increment
SleepsOnFence(p) ==
    \/ sub[p].pc = "filewait" /\ ~extSignaled
    \/ sub[p].pc = "fencewait" /\ \E f \in sub[p].implicit : ~Signaled(f)

\* the steps by which the call of p leaves its sleep on a fence
LeavesFenceWait(p) ==
    \/ \E c \in CmdLists(sub[p].ncmds - 1), i, ok \in BOOLEAN :
          SubFileWait(p, i, c, ok) /\ SubmitFrame
    \/ SubUnblock(p) /\ SubmitFrame

\* C29: every sleep of the call on a fence is interruptible: while the fence
\* has not signalled and a signal can still be delivered, the call can
\* leave the sleep, in the wait of a WAIT_SYNC_FILE command as in the wait
\* for the prefences that precedes the unblocking increment.
C29_FenceWaitsInterruptible ==
    \A p \in Callers :
       SleepsOnFence(p) /\ events > 0 => ENABLED LeavesFenceWait(p)

\* the steps that bring pushed jobs to retirement: the calls going on after
\* the push, the engines executing, the fence of the other driver signalling
RetireProgress ==
    \/ \E p \in Callers, w \in BOOLEAN :
          SubPostfences(p, w, "ok") /\ SubmitFrame
    \/ \E p \in Callers : SubUnblock(p) /\ SubmitFrame
    \/ \E p \in Callers : SubUnwind(p) /\ SubmitFrame
    \/ \E j \in Callers : HwStart(j) /\ SubmitFrame
    \/ \E j \in Callers : HwIncr(j) /\ SubmitFrame
    \/ \E j \in Callers : HwRetire(j) /\ SubmitFrame
    \/ ExtSignal /\ SubmitFrame

\* C30: when the submissions to the syncpoint carry implicit-dependency
\* buffers, share a buffer and have all been pushed, they are never stuck:
\* either every job has retired and every call returned, or a call, an
\* engine or the outside fence can still take a step.
C30_BothRetire ==
    (\A p \in Callers : Pushed(p) /\ job[p].unblock) =>
       \/ \A p \in Callers : job[p].retired /\ Returned(p)
       \/ ENABLED RetireProgress

\* the gathers of job j lie one after the other from the start of the
\* gather data and end inside its n words
GathersInside(g, n) ==
    \A i \in DOMAIN g :
       /\ g[i].off = (IF i = 1 THEN 0 ELSE g[i - 1].off + 4 * g[i - 1].words)
       /\ g[i].off + 4 * g[i].words <= 4 * n

\* C31: a job that was pushed has a gather with a nonzero word count, none
\* of its gathers has more than 16383 words, and its gathers occupy
\* consecutive word ranges inside the copied gather data; a call with
\* gather_data_words = 0, or whose commands hold no gather word, is
\* rejected, with -EINVAL unless a failure of the environment came first.
C31_GathersWellFormed ==
    \A p \in Callers :
       /\ Pushed(p) =>
             /\ \E i \in DOMAIN job[p].gathers : job[p].gathers[i].words > 0
             /\ \A i \in DOMAIN job[p].gathers :
                   job[p].gathers[i].words <= MaxGatherWords
             /\ GathersInside(job[p].gathers, acct[p].dataWords)
       /\ Returned(p) /\ (acct[p].dataWords = 0 \/ ~acct[p].anyWords) =>
             /\ ~Pushed(p)
             /\ sub[p].err # "0"
             /\ ~acct[p].faulted => sub[p].err = "EINVAL"

C31_Witness ==
    \E p \in Callers :
       /\ Pushed(p)
       /\ Len(job[p].gathers) = 2
       /\ job[p].gathers[2].off = 4
       /\ job[p].gathers[2].words = 1

\* the call of p is between the context lookup that succeeded and its return
InsideCall(p) == sub[p].pc \notin {"unused", "idle", "returned"}

\* C36: tegra_drm_ioctl_channel_submit holds the lock of the file from the
\* context lookup that succeeded until it returns and releases it exactly
\* once on every exit path; when a reserved field is not zero or the context
\* is unknown it returns -EINVAL without the lock and without an unlock.
C36_FileLock ==
    \A p \in Callers :
       /\ InsideCall(p) => flock[p] = p /\ acct[p].unlocks = 0
       /\ Returned(p) =>
             /\ flock[p] = 0
             /\ acct[p].unlocks = (IF acct[p].badArgs THEN 0 ELSE 1)
             /\ acct[p].badArgs => sub[p].err = "EINVAL"

\* a call that failed late, after the job was made, has returned with one
\* unlock
C36_Witness ==
    \E p \in Callers :
       /\ Returned(p)
       /\ sub[p].err = "ENOMEM"
       /\ sub[p].phase \notin {"args", "gather", "jobdata", "bufs", "alloc"}
       /\ acct[p].unlocks = 1

(***************************************************************************)
(* Claims about the sync points of fence.c.                                *)
(***************************************************************************)
\* C11: extracting a sync point made by host1x_sync_pt_create(s, t) returns
\* true and yields exactly s and t; extracting a sync point of a timeline
\* that is not host1x's returns false and leaves both outputs as they were.
C11_RoundTrip ==
    \A i \in DOMAIN pts :
       ext[i].done =>
          IF pts[i].by = "host1x"
          THEN ext[i].out = [ret |-> TRUE, syncpt |-> pts[i].s,
                             threshold |-> pts[i].t]
          ELSE ext[i].out = [ret |-> FALSE, syncpt |-> ext[i].inSyncpt,
                             threshold |-> ext[i].inThreshold]

C11_Witness ==
    /\ \E i \in DOMAIN pts :
          /\ ext[i].done
          /\ pts[i].by = "host1x"
          /\ pts[i].s = NumSyncpts
          /\ pts[i].t = <<0, 16>>
          /\ ext[i].inSyncpt # pts[i].s
          /\ ext[i].inThreshold # pts[i].t
    /\ \E i \in DOMAIN pts :
          /\ ext[i].done
          /\ pts[i].by = "other"
          /\ ext[i].inSyncpt # 0

ReservedPt(s) == SyncPtCreate(s, resv[s].t)

\* C13 as stated: a threshold that incr_max reserved is not expired until
\* min has been advanced to it, and is expired once min has reached it.
C13_ExpiredOnceReached ==
    \A s \in Syncpts :
       resv[s].valid =>
          /\ ~resv[s].h.hit => ~HasSignaled(ReservedPt(s))
          /\ resv[s].h.hit /\ ~resv[s].h.far => HasSignaled(ReservedPt(s))

\* C13 amended: the same, for a threshold reserved at most 2^31 increments
\* ahead of min and for as long as min is fewer than 2^31 increments past
\* it.
C13_ExpiredWithinHalfRange ==
    \A s \in Syncpts :
       resv[s].valid /\ resv[s].window =>
          /\ ~resv[s].h.hit => ~HasSignaled(ReservedPt(s))
          /\ resv[s].h.hit /\ ~resv[s].h.far => HasSignaled(ReservedPt(s))

\* threshold 0x10 reserved while min = 0xFFFFFFF0, and min has wrapped and
\* reached it
C13_Witness ==
    \E s \in Syncpts :
       /\ resv[s].valid
       /\ resv[s].window
       /\ resv[s].t = <<0, 16>>
       /\ resv[s].h.hit
       /\ fsp[s].min = <<0, 16>>
       /\ HasSignaled(ReservedPt(s))

\* the waits a fence asks of the channel: one for each of its points that
\* host1x made and whose threshold is not expired, in the order of the
\* points
RECURSIVE WaitsOf(_)
WaitsOf(comps) ==
    IF comps = <<>> THEN <<>>
    ELSE LET p == pts[Head(comps)]
         IN  (IF p.by = "host1x" /\ ~SyncptIsExpired(fsp[p.s], p.t)
              THEN <<[id |-> p.s, thr |-> p.t]>> ELSE <<>>)
             \o WaitsOf(Tail(comps))

\* C34: host1x_sync_fence_wait() pushes exactly one wait (syncpoint,
\* threshold), in the order of the components, for each component that
\* host1x made and that is not expired, nothing for the others, and returns
\* true if and only if a component was not made by host1x.
C34_FenceWaitPushes ==
    fwait.done =>
       /\ fwait.pushed = WaitsOf(fwait.fence)
       /\ fwait.ret = (\E i \in DOMAIN fwait.fence :
                          pts[fwait.fence[i]].by = "other")

\* a fence of a point of another driver followed by a point of host1x that
\* is not expired
C34_Witness ==
    /\ fwait.done
    /\ Len(fwait.fence) = 2
    /\ pts[fwait.fence[1]].by = "other"
    /\ fwait.ret
    /\ Len(fwait.pushed) = 1

\* C16: host1x_channel_get_index() on a slot whose bit is clear in the bitmap
\* (never requested, released, or rolled back by a failed request) returns
\* NULL and changes neither the reference counts, the bitmap nor the
\* semaphore.
C16_IndexOnlyAllocated ==
    [][\A q \in ChProcs : \A i \in Slots :
          ChGetIndex(q, i) /\ i \notin allocated =>
             /\ chret'[q] = "NULL"
             /\ UNCHANGED <<refcount, allocated, sema>>]_vars

\* C17: a request that went to sleep while NumChannels channels were leased
\* does not return a channel before one of the leases has ended.
C17_NoChannelBeforeRelease ==
    \A w \in ChProcs : chhist.full[w] => chpc[w] # "holding"

\* C18: a request that does not wait, made while NumChannels channels are
\* leased, returns -EBUSY at once and leaves the semaphore, the bitmap and
\* the reference counts as they were.
C18_TryLockBusy ==
    [][\A p \in ChProcs :
          ChDownTry(p) /\ Cardinality(Leases) = NumChannels =>
             /\ chpc'[p] = "idle"
             /\ chret'[p] = "EBUSY"
             /\ UNCHANGED <<sema, allocated, refcount>>]_vars

\* C19: every request that failed in its initialisation has cost the pool a
\* semaphore credit for good: after k such failures at most NumChannels - k
\* channels are leased at the same time, and once k = NumChannels no request
\* gets past the semaphore any more.
C19_FailuresCostLeases ==
    /\ chhist.fails <= NumChannels =>
          Cardinality(Leases) <= NumChannels - chhist.fails
    /\ chhist.fails >= NumChannels =>
          \A p \in ChProcs : chpc[p] \notin {"acquired", "found", "init", "pbinit"}

\* the pool is gone: host1x_channel_list_free() has run
ListFreed == \A p \in ChProcs : chpc[p] = "gone"

\* C20: the push buffer of a slot is initialised at most once, and once
\* initialised it stays mapped, through every release and new request of
\* the slot, until host1x_channel_list_free() destroys it.
C20_PushBufferKept ==
    \A i \in Slots :
       /\ chhist.inits[i] <= 1
       /\ chhist.inits[i] >= 1 /\ ~ListFreed => mapped[i]
       /\ ListFreed => ~mapped[i]

\* the callers that hold a reference to slot i, from host1x_channel_request(),
\* host1x_channel_get() or host1x_channel_get_index()
HoldersOf(i) == {q \in ChProcs : chpc[q] = "holding" /\ chslot[q] = i}

\* C25: release_channel() starts on a slot only when no caller still holds a
\* reference to it, and a request never re-initialises the reference count
\* of a slot while a caller holds a reference to it.
C25_ReleaseWhenUnreferenced ==
    [][\A p \in ChProcs :
          /\ ChKrefInit(p) => HoldersOf(chslot[p]) = {}
          /\ ChPut(p) /\ chpc'[p] = "release" =>
                HoldersOf(chslot[p]) \ {p} = {}]_vars

\* the channels whose bit of the bitmap is clear
FreeChannels == (0 .. NumChannels - 1) \ allocated

\* C35: the count of the semaphore never exceeds the number of clear bits of
\* the bitmap, so a request that took a credit always finds a free index
\* and never returns -EBUSY from the "failed to find free channel" branch.
C35_CreditsHaveChannels ==
    /\ sema <= Cardinality(FreeChannels)
    /\ \A p \in ChProcs : chret[p] # "EBUSY_NOFREE"

\* a request took the last credit and found the last clear bit
C35_Witness ==
    /\ \E p \in ChProcs : chpc[p] = "found" /\ chslot[p] = NumChannels - 1
    /\ sema = 0
    /\ FreeChannels = {}

====
